---- MODULE Spec2Model ----
(***************************************************************************)
(* The Throttled Upstream Completion Gateway of antremick/tennr_project.   *)
(*                                                                         *)
(* Two builds of api/evaluate.js are modelled:                             *)
(*   - src/api/evaluate.js (and its older copy src/unnamed/part_004):      *)
(*     the sleep-based token bucket and the 4-attempt retry loop;          *)
(*   - src/unnamed/part_005: the queue-based token bucket and the          *)
(*     5-attempt, status-aware retry loop.                                 *)
(*                                                                         *)
(* Time is in milliseconds (Date.now()).  Token counts are fixed-point,    *)
(* in thousandths of a token: with an integer refillPerSec, elapsed ms     *)
(* times refillPerSec is exactly the refill in thousandths.                *)
(***************************************************************************)
EXTENDS Integers, Sequences, FiniteSets, TLC

VARIABLES
    now,        \* Date.now() as the limiter reads it, ms since the module was loaded
    rlQ,        \* part_005 _rl: [tokens, last, queue, processing]
    qTimer,     \* part_005 processQueue: the pending setTimeout's due time, or NoTimer
    arrived,    \* part_005: number of throttleGlobal calls made so far
    resolved,   \* part_005: log of resolve() calls, [caller, at], in order
    rl,         \* evaluate.js _rl: [tokens, last]
    sleepers,   \* evaluate.js throttleGlobal: callers at the await -> timer due time
    entered,    \* evaluate.js: number of throttleGlobal calls made so far
    admitted,   \* evaluate.js: log of throttleGlobal returns, [caller, at], in order
    build,      \* handler: which build serves the request, "evaluate" or "part_005"
    pc,         \* handler: the await (or end) the invocation is at
    req,        \* handler: the request being served
    attempt,    \* callOpenAIWithRetries: attempt
    lastErrText,\* callOpenAIWithRetries: lastErrText, [from, text]
    lastHeaders,\* callOpenAIWithRetries: lastHeaders, [from] (from 0: the initial {})
    timer,      \* evaluate.js handler: due time of throttleGlobal's setTimeout, or NoTimer
    ret,        \* what callOpenAIWithRetries returned (or that it threw)
    res,        \* handler: the responses sent on res, in order
    lastResp,   \* history: the outcome of the latest fetch
    backoff,    \* history: the backoff wait that follows the latest outcome, if any
    gap,        \* history: ms that wait took, once the fetch after it is issued
    requests,   \* history: fetches issued by this invocation
    waits,      \* history: backoff waits started by this invocation
    acquires,   \* history: throttleGlobal promises resolved for this invocation
    allRetryable, \* history: every outcome so far was a retryable HTTP status
    only429,    \* history: every failed outcome so far was a 429 response
    waitedRetryAfter, \* history: every backoff wait so far lasted the retry-after
                \* seconds of the response before it, when it carried any
    callerReferral, \* the caller's referral object (body.referral) as it is now
    safeReferral, \* handler: safeReferral, what sanitizeReferral returned or that it threw
    payload,    \* handler: payload, the body of every upstream request
    upstream,   \* history: what the 2xx response held, once resp.json() settled
    abandoned,  \* the caller has abandoned the evaluation (the effect's cleanup ran)
    ui,         \* ReferralDetail: its props, its state, its run()s and analyzePdf
    outbox      \* App: lowConnectivity and queue; ReferralDetail: held; the last click

varsQ == <<rlQ, qTimer, arrived, resolved>>
varsS == <<rl, sleepers, entered, admitted>>
varsH == <<build, pc, req, attempt, lastErrText, lastHeaders, timer, ret, res,
           lastResp, backoff, gap, requests, waits, acquires, allRetryable,
           only429, waitedRetryAfter, callerReferral, safeReferral, payload,
           upstream, abandoned, ui, outbox>>
vars == <<now, varsQ, varsS, varsH>>

(***************************************************************************)
(* Bounds of the model.                                                    *)
(***************************************************************************)
MaxCallersQ == 12     \* callers of the queue-based limiter
MaxTimeQ == 1250      \* the queue-based limiter's clock stops here
MaxCallersS == 4      \* callers of the sleep-based limiter
MaxTimeS == 2500      \* the sleep-based limiter's clock stops here
TickMs == 250         \* granularity of the clock in the limiter specifications
LateMs == 30          \* how late a timer may fire in the handler's specification
LiveCallersS == 4     \* callers of the sleep-based limiter, under fairness
LiveCallersQ == 12    \* callers of the queue-based limiter, under fairness
MaxTimeLive == 1000   \* under fairness the clock ticks up to here, then
                      \* moves from timer to timer

NoTimer == -1

\* A timer fires when due or later.
Lateness == {0, LateMs}

Min(a, b) == IF a <= b THEN a ELSE b
Max(a, b) == IF a >= b THEN a ELSE b
CeilDiv(a, b) == (a + b - 1) \div b

\* One whole token, in thousandths.
OneToken == 1000

(***************************************************************************)
(* evaluate.js (and part_004): the sleep-based limiter.                    *)
(***************************************************************************)
capacity == 2
refillPerSec == 1
jitterRange == 120

\* Math.floor(Math.random() * 120): the extremes of 0..119.
Jitter == {0, jitterRange - 1}

\* _rl.tokens = Math.min(capacity, tokens + elapsed * refillPerSec)
Refill(tokens, last, t) ==
    Min(capacity * OneToken, tokens + (t - last) * refillPerSec)

\* Math.ceil((need / refillPerSec) * 1000) + jitter, need = 1 - tokens
WaitMs(tokens, jitter) ==
    CeilDiv(OneToken - tokens, refillPerSec) + jitter

\* throttleGlobal up to its return or its await: b = [tokens, last].
\* Gives the bucket and the timer's due time (NoTimer: returned at once).
throttleEnter(b, t, jitter) ==
    LET tk == Refill(b.tokens, b.last, t) IN
    IF tk >= OneToken
    THEN [rl |-> [tokens |-> tk - OneToken, last |-> t], timer |-> NoTimer]
    ELSE [rl |-> [tokens |-> tk, last |-> t], timer |-> t + WaitMs(tk, jitter)]

\* Mutant of throttleResume: the token is taken without the clamp at 0.
throttleResume_noClamp(b, t) ==
    [tokens |-> Refill(b.tokens, b.last, t) - OneToken, last |-> t]

\* throttleGlobal after its await: settle the bucket again and take a token.
throttleResume(b, t) ==
    [tokens |-> Max(0, Refill(b.tokens, b.last, t) - OneToken), last |-> t]

InitS ==
    /\ rl = [tokens |-> capacity * OneToken, last |-> 0]
    /\ sleepers = [c \in 1..MaxCallersS |-> NoTimer]
    /\ entered = 0
    /\ admitted = <<>>

\* A caller invokes throttleGlobal: it returns at once or reaches the await.
throttleGlobalCall ==
    /\ entered < MaxCallersS
    /\ \E j \in Jitter :
         LET r == throttleEnter(rl, now, j) IN
         /\ rl' = r.rl
         /\ IF r.timer = NoTimer
            THEN /\ admitted' = Append(admitted, [caller |-> entered + 1, at |-> now])
                 /\ UNCHANGED sleepers
            ELSE /\ sleepers' = [sleepers EXCEPT ![entered + 1] = r.timer]
                 /\ UNCHANGED admitted
    /\ entered' = entered + 1
    /\ UNCHANGED <<now, varsQ, varsH>>

\* A sleeping caller's timer fires: the rest of throttleGlobal runs.
throttleGlobalWake ==
    /\ \E c \in 1..MaxCallersS :
         /\ sleepers[c] # NoTimer
         /\ now >= sleepers[c]
         /\ rl' = throttleResume(rl, now)
         /\ sleepers' = [sleepers EXCEPT ![c] = NoTimer]
         /\ admitted' = Append(admitted, [caller |-> c, at |-> now])
    /\ UNCHANGED <<now, entered, varsQ, varsH>>

\* The clock advances: by a tick while the specification's horizon is not
\* reached, or to the moment a sleeper's timer is due (a pending timer's due
\* time always comes).
TickS ==
    /\ \E t \in (IF now < MaxTimeS THEN {now + TickMs} ELSE {})
                    \cup {sleepers[c] : c \in 1..MaxCallersS} :
         /\ t > now
         /\ now' = t
    /\ UNCHANGED <<varsQ, varsS, varsH>>

(***************************************************************************)
(* part_005: the queue-based limiter.                                      *)
(***************************************************************************)
capacityQ == 10
refillPerSecQ == 2
jitterRangeQ == 200

\* Math.floor(Math.random() * 200): the extremes of 0..199.
JitterQ == {0, jitterRangeQ - 1}

\* _rl.tokens = Math.min(capacity, tokens + elapsed * refillPerSec)
RefillQ(tokens, last, t) ==
    Min(capacityQ * OneToken, tokens + (t - last) * refillPerSecQ)

\* Mutant of HasTokenQ: a release as soon as the bucket is not empty.
HasTokenQ_anyFraction(tokens) == tokens > 0

\* if (_rl.tokens >= 1)
HasTokenQ(tokens) == tokens >= OneToken

\* Math.ceil((need / refillPerSec) * 1000) + jitter, need = 1 - tokens
WaitMsQ(tokens, jitter) ==
    CeilDiv(OneToken - tokens, refillPerSecQ) + jitter

\* Mutant of processQueueLoop: the waiter pushed last is released first.
RECURSIVE processQueueLoop_lifo(_, _, _)
processQueueLoop_lifo(st, t, jitter) ==
    IF st.rl.queue = <<>>
    THEN [st EXCEPT !.rl.processing = FALSE]
    ELSE LET tk == RefillQ(st.rl.tokens, st.rl.last, t)
             n == Len(st.rl.queue)
         IN
         IF HasTokenQ(tk)
         THEN processQueueLoop_lifo(
                  [st EXCEPT !.rl.tokens = tk - OneToken,
                             !.rl.last = t,
                             !.rl.queue = SubSeq(st.rl.queue, 1, n - 1),
                             !.log = Append(st.log,
                                        [caller |-> st.rl.queue[n], at |-> t])],
                  t, jitter)
         ELSE [st EXCEPT !.rl.tokens = tk,
                         !.rl.last = t,
                         !.timer = t + WaitMsQ(tk, jitter)]

\* The while loop of processQueue, run from its head until it either leaves
\* the loop (queue empty: processing = false) or reaches the await of its
\* else branch (a timer is set).  st = [rl, timer, log].
RECURSIVE processQueueLoop(_, _, _)
processQueueLoop(st, t, jitter) ==
    IF st.rl.queue = <<>>
    THEN [st EXCEPT !.rl.processing = FALSE]
    ELSE LET tk == RefillQ(st.rl.tokens, st.rl.last, t) IN
         IF HasTokenQ(tk)
         THEN processQueueLoop(
                  [st EXCEPT !.rl.tokens = tk - OneToken,
                             !.rl.last = t,
                             !.rl.queue = Tail(st.rl.queue),
                             !.log = Append(st.log,
                                        [caller |-> Head(st.rl.queue), at |-> t])],
                  t, jitter)
         ELSE [st EXCEPT !.rl.tokens = tk,
                         !.rl.last = t,
                         !.timer = t + WaitMsQ(tk, jitter)]

\* Mutant of processQueue: the loop is started only when a token is at hand.
processQueue_needsToken(st, t, jitter) ==
    IF st.rl.processing \/ st.rl.queue = <<>> \/ ~HasTokenQ(st.rl.tokens)
    THEN st
    ELSE processQueueLoop([st EXCEPT !.rl.processing = TRUE], t, jitter)

\* Mutant of processQueue: a loop is started whether or not one is active.
processQueue_reentrant(st, t, jitter) ==
    IF st.rl.queue = <<>>
    THEN st
    ELSE processQueueLoop([st EXCEPT !.rl.processing = TRUE], t, jitter)

\* processQueue(): returns at once when a loop is active or the queue is empty.
processQueue(st, t, jitter) ==
    IF st.rl.processing \/ st.rl.queue = <<>>
    THEN st
    ELSE processQueueLoop([st EXCEPT !.rl.processing = TRUE], t, jitter)

InitQ ==
    /\ rlQ = [tokens |-> capacityQ * OneToken, last |-> 0,
              queue |-> <<>>, processing |-> FALSE]
    /\ qTimer = NoTimer
    /\ arrived = 0
    /\ resolved = <<>>

\* throttleGlobal(): the next caller pushes its resolve and calls processQueue.
throttleGlobalQ ==
    /\ arrived < MaxCallersQ
    /\ \E j \in JitterQ :
         LET st == processQueue(
                     [rl |-> [rlQ EXCEPT !.queue = Append(@, arrived + 1)],
                      timer |-> qTimer, log |-> resolved], now, j)
         IN /\ rlQ' = st.rl
            /\ qTimer' = st.timer
            /\ resolved' = st.log
    /\ arrived' = arrived + 1
    /\ UNCHANGED <<now, varsS, varsH>>

\* The setTimeout of processQueue's else branch fires: back to the loop head.
processQueueWake ==
    /\ qTimer # NoTimer
    /\ now >= qTimer
    /\ \E j \in JitterQ :
         LET st == processQueueLoop(
                     [rl |-> rlQ, timer |-> NoTimer, log |-> resolved], now, j)
         IN /\ rlQ' = st.rl
            /\ qTimer' = st.timer
            /\ resolved' = st.log
    /\ UNCHANGED <<now, arrived, varsS, varsH>>

\* The clock advances: by a tick while the specification's horizon is not
\* reached, or to the moment processQueue's timer is due.
TickQ ==
    /\ \E t \in (IF now < MaxTimeQ THEN {now + TickMs} ELSE {}) \cup {qTimer} :
         /\ t > now
         /\ now' = t
    /\ UNCHANGED <<varsQ, varsS, varsH>>

(***************************************************************************)
(* sanitizeReferral, the same in both builds, on the JSON values of a      *)
(* referral.  A string is known by the text it is cut from and its length; *)
(* an object or array by the memory it lives in, the caller's or the       *)
(* gateway's.                                                              *)
(***************************************************************************)
maxTextChars == 3000
MaxDocs == 5          \* documents of a referral

\* Lengths of a document's text.
TextLens == {0, 1, 2999, 3000, 3001, 10000}

\* The first len characters of the text numbered src; "" whatever the text.
Str(src, len) ==
    [kind |-> "string", src |-> IF len = 0 THEN 0 ELSE src, len |-> len]
\* A key that is not there (undefined), null, and a number.
Absent == [kind |-> "absent", src |-> 0, len |-> 0]
JNull == [kind |-> "null", src |-> 0, len |-> 0]
JNumber(n) == [kind |-> "number", src |-> 0, len |-> n]

\* x || "": the falsy values are undefined, null, 0 and "".
Truthy(v) == (v.kind = "string" /\ v.len > 0) \/ (v.kind = "number" /\ v.len # 0)
OrEmpty(v) == IF Truthy(v) THEN v ELSE Str(0, 0)

\* String.prototype.slice(0, n)
sliceText(v, n) == Str(v.src, Min(v.len, n))

\* An element of documents: null, a number, or an object {filename, text}.
NullDoc == [kind |-> "null", owner |-> "none", filename |-> 0, text |-> Absent]
NumberDoc == [kind |-> "number", owner |-> "none", filename |-> 0, text |-> Absent]
ObjectDoc(owner, filename, text) ==
    [kind |-> "object", owner |-> owner, filename |-> filename, text |-> text]

\* The value under the key documents: none, an array, or something else.
NoDocuments == [kind |-> "absent", owner |-> "none", items |-> <<>>]
NotAnArray == [kind |-> "object", owner |-> "caller", items |-> <<>>]
Documents(owner, items) == [kind |-> "array", owner |-> owner, items |-> items]

\* The referral: null (or absent), or an object; structured when it has id,
\* patient and specialty.
NullReferral ==
    [kind |-> "null", owner |-> "none", structured |-> FALSE, documents |-> NoDocuments]
Referral(structured, documents) ==
    [kind |-> "object", owner |-> "caller", structured |-> structured,
     documents |-> documents]
\* {}
EmptyObject ==
    [kind |-> "object", owner |-> "gateway", structured |-> FALSE,
     documents |-> NoDocuments]

\* The shapes of a first document, and of the documents after it.
TextShapes ==
    {Absent, JNull, JNumber(0), JNumber(7)} \cup {Str(1, n) : n \in TextLens}
FirstShapes ==
    {NullDoc, NumberDoc} \cup {ObjectDoc("caller", 1, t) : t \in TextShapes}
TailShapes == {NullDoc, ObjectDoc("caller", 1, Str(1, 10000))}

\* The document of a shape at position i: its own filename and text.
docAt(shape, i) ==
    IF shape.kind # "object" THEN shape
    ELSE ObjectDoc("caller", i,
                   IF shape.text.kind = "string"
                   THEN Str(i, shape.text.len) ELSE shape.text)

DocumentLists ==
    {<<>>} \cup
    UNION {{[i \in 1..(n + 1) |->
               IF i = 1 THEN docAt(first, 1) ELSE docAt(tail[i - 1], i)] :
             first \in FirstShapes, tail \in [1..n -> TailShapes]} :
           n \in 0..(MaxDocs - 1)}

\* The referrals sanitizeReferral is applied to.
ReferralInputs ==
    {NullReferral} \cup
    {Referral(st, d) : st \in BOOLEAN,
                       d \in {NoDocuments, NotAnArray} \cup
                              {Documents("caller", l) : l \in DocumentLists}}

\* Scenario E: MaxDocs documents, 10,000 characters of text in each.
LargeReferral ==
    Referral(TRUE, Documents("caller",
        [i \in 1..MaxDocs |-> ObjectDoc("caller", i, Str(i, 10000))]))

\* Mutant of cloneJSON: no copy is made, the gateway works on the caller's object.
cloneJSON_alias(r) == r

\* JSON.parse(JSON.stringify(r)): the same JSON value in objects of its own.
cloneJSON(r) ==
    [r EXCEPT !.owner = "gateway",
              !.documents =
                  [@ EXCEPT !.owner = IF @ = "none" THEN "none" ELSE "gateway",
                            !.items = [i \in DOMAIN @ |->
                                         IF @[i].kind = "object"
                                         THEN [@[i] EXCEPT !.owner = "gateway"]
                                         ELSE @[i]]]]

\* Mutant of sliceDocs: two documents are kept.
sliceDocs_two(items) == SubSeq(items, 1, Min(2, Len(items)))

\* copy.documents.slice(0, 1)
sliceDocs(items) == SubSeq(items, 1, Min(1, Len(items)))

\* d.text: a TypeError on null, undefined on a number.
textOf(d) == IF d.kind = "object" THEN d.text ELSE Absent

\* The map callback throws: d.text on null, or .slice on what is no string.
trimThrows(d) == d.kind = "null" \/ OrEmpty(textOf(d)).kind # "string"

\* ({ ...d, text: (d.text || "").slice(0, 3000) })
trimDoc(d) ==
    ObjectDoc("gateway",
              IF d.kind = "object" THEN d.filename ELSE 0,
              sliceText(OrEmpty(textOf(d)), maxTextChars))

NotSanitized == [state |-> "none", value |-> NullReferral]

\* sanitizeReferral(r): what it returns or that it threw, and the caller's
\* object afterwards (the assignment to copy.documents writes it when copy
\* is the caller's object).
sanitizeReferral(r) ==
    LET copy == cloneJSON(IF r.kind = "null" THEN EmptyObject ELSE r) IN
    IF copy.documents.kind # "array"
    THEN [state |-> "value", value |-> copy, caller |-> r]
    ELSE LET first == sliceDocs(copy.documents.items)
             docs == Documents("gateway", [i \in DOMAIN first |-> trimDoc(first[i])])
         IN IF \E i \in DOMAIN first : trimThrows(first[i])
            THEN [state |-> "threw", value |-> NullReferral, caller |-> r]
            ELSE [state |-> "value",
                  value |-> [copy EXCEPT !.documents = docs],
                  caller |-> IF copy.owner = "gateway" THEN r
                             ELSE [r EXCEPT !.documents = docs]]

(***************************************************************************)
(* callOpenAIWithRetries, both builds.                                     *)
(***************************************************************************)
Builds == {"evaluate", "part_005"}

maxAttemptsE == 4
maxAttemptsQ == 5
maxAttempts(b) == IF b = "evaluate" THEN maxAttemptsE ELSE maxAttemptsQ

\* HTTP statuses the upstream answers with; resp.ok is status in 200..299.
Statuses == {200, 400, 401, 404, 429, 500, 502, 503, 504}
RespOk(status) == status >= 200 /\ status <= 299

\* Number(resp.headers.get("retry-after") || 0), in seconds; 0 also stands for
\* a header that is absent (an HTTP-date gives NaN, which both builds treat
\* as absent too).
RetryAfters == {0, 1, 5}

\* Mutant of retryable: the rate-limit status left out.
retryable_no429(status) == status \in {500, 502, 503, 504}

\* status === 429 || status === 500 || ... || status === 504
retryable(status) == status \in {429, 500, 502, 503, 504}

\* Mutant of exhausted: off by one.
exhausted_offByOne(a, b) == a > maxAttempts(b)

\* attempt >= maxAttempts
exhausted(a, b) == a >= maxAttempts(b)

RECURSIVE Pow2(_)
Pow2(n) == IF n = 0 THEN 1 ELSE 2 * Pow2(n - 1)

\* base * Math.pow(1.5, n), the fraction of a millisecond dropped (setTimeout
\* truncates its delay): base * 3^n / 2^n.
RECURSIVE Pow3(_)
Pow3(n) == IF n = 0 THEN 1 ELSE 3 * Pow3(n - 1)
TimesPow15(base, n) == (base * Pow3(n)) \div Pow2(n)

expBaseE == 400
jitterRangeE == 200
delayCapE == 4000

\* evaluate.js: Math.floor(Math.random() * 200), the extremes of 0..199.
jitterE(delay) == {0, jitterRangeE - 1}

\* Mutant of baseE: the backoff grows linearly with the attempt number.
baseE_linear(status, retryAfter, a) ==
    IF retryAfter # 0 THEN retryAfter * 1000 ELSE expBaseE * a

\* evaluate.js: base = retryAfter ? retryAfter * 1000 : 400 * Math.pow(2, attempt - 1)
baseE(status, retryAfter, a) ==
    IF retryAfter # 0 THEN retryAfter * 1000 ELSE expBaseE * Pow2(a - 1)

\* evaluate.js: delay = Math.min(4000, base + jitter)
delayE(base, jitter) == Min(delayCapE, base + jitter)

expBase429 == 1000
delayCap429 == 30000
expBase5xx == 500
delayCap5xx == 8000
jitterCapQ == 1000
expBaseNet == 1000
delayCapNet == 5000

\* Mutant of baseQ: the retry-after header is not read.
baseQ_noRetryAfter(status, retryAfter, a) ==
    IF status = 429
    THEN Min(delayCap429, expBase429 * Pow2(a - 1))
    ELSE Min(delayCap5xx, TimesPow15(expBase5xx, a - 1))

\* part_005: the delay before the jitter, by status.
baseQ(status, retryAfter, a) ==
    IF status = 429
    THEN IF retryAfter > 0
         THEN retryAfter * 1000
         ELSE Min(delayCap429, expBase429 * Pow2(a - 1))
    ELSE Min(delayCap5xx, TimesPow15(expBase5xx, a - 1))

\* part_005: Math.floor(Math.random() * Math.min(1000, delay * 0.1)), its extremes.
jitterQ(delay) == {0, Min(jitterCapQ, CeilDiv(delay, 10)) - 1}

\* Mutant of delayQ: the delay is capped at 2 s.
delayQ_capped(base, jitter) == Min(2000, base + jitter)

\* part_005: delay += jitter
delayQ(base, jitter) == base + jitter

\* part_005, catch: Math.min(5000, 1000 * Math.pow(1.5, attempt - 1))
delayNet(a) == Min(delayCapNet, TimesPow15(expBaseNet, a - 1))

\* Mutant of errTextOf: the first error text is kept.
errTextOf_keepFirst(prev, a, bodyReadable) ==
    IF prev.from # 0
    THEN prev
    ELSE [from |-> a, text |-> IF bodyReadable THEN "body" ELSE "(no body)"]

\* lastErrText = await resp.text().catch(() => "(no body)")
errTextOf(prev, a, bodyReadable) ==
    [from |-> a, text |-> IF bodyReadable THEN "body" ELSE "(no body)"]

\* The x-ratelimit-remaining-requests and -tokens headers of a response, as
\* resp.headers.get gives them: a string, or null when the header is absent.
\* Responses that no hint is made from carry "5" in both.
Remaining(status, next) ==
    IF status = 429 /\ next = "fail"
    THEN {<<"0", "0">>, <<"0", "5">>, <<"5", "0">>, <<"5", "5">>,
          <<"null", "0">>, <<"null", "null">>}
    ELSE {<<"5", "5">>}

\* lastHeaders = { ...resp.headers... }
headersOf(prev, a) == [from |-> a, remainingRequests |-> "5", remainingTokens |-> "5"]
withRemaining(h, rem) ==
    [h EXCEPT !.remainingRequests = rem[1], !.remainingTokens = rem[2]]

NoErrText == [from |-> 0, text |-> ""]
NoHeaders == [from |-> 0, remainingRequests |-> "undefined",
              remainingTokens |-> "undefined"]
NoRet == [kind |-> "none", status |-> 0, errText |-> NoErrText, rate |-> NoHeaders]
NoBackoff == [after |-> 0, kind |-> "none", status |-> 0, retryAfter |-> 0, delay |-> 0]

\* What one pass of the loop body does with an HTTP response, from the
\* capture of the headers to a return or to the setTimeout:
\* [next, delay, errText, headers].
onResponse(b, a, status, retryAfter, bodyReadable, prevErr, prevHdr, jitter) ==
    LET hdr == headersOf(prevHdr, a) IN
    IF RespOk(status)
    THEN [next |-> "ok", delay |-> 0, errText |-> prevErr, headers |-> hdr]
    ELSE LET err == errTextOf(prevErr, a, bodyReadable) IN
         IF ~retryable(status) \/ exhausted(a, b)
         THEN [next |-> "fail", delay |-> 0, errText |-> err, headers |-> hdr]
         ELSE [next |-> "backoff",
               delay |-> IF b = "evaluate"
                         THEN delayE(baseE(status, retryAfter, a), jitter)
                         ELSE delayQ(baseQ(status, retryAfter, a), jitter),
               errText |-> err, headers |-> hdr]

\* The jitter the pass draws.
jitterOf(b, a, status, retryAfter) ==
    IF b = "evaluate"
    THEN jitterE(baseE(status, retryAfter, a))
    ELSE jitterQ(baseQ(status, retryAfter, a))

\* Mutant of onReject: part_005 gives up at the first rejected fetch.
onReject_noRetry(b, a) ==
    IF b = "evaluate"
    THEN [next |-> "throw", delay |-> 0]
    ELSE [next |-> "fail", delay |-> 0]

\* What happens when fetch rejects: evaluate.js has no try around it, part_005
\* catches and retries until the attempts are exhausted.
onReject(b, a) ==
    IF b = "evaluate"
    THEN [next |-> "throw", delay |-> 0]
    ELSE IF exhausted(a, b)
         THEN [next |-> "fail", delay |-> 0]
         ELSE [next |-> "backoff", delay |-> delayNet(a)]

(***************************************************************************)
(* handler, both builds: one invocation, from the request to the response. *)
(***************************************************************************)
Methods == {"POST", "GET"}
\* The tasks requests name: a supported one, an unsupported one and "", a
\* body without task.  The supported tasks differ in the prompt only.
Tasks == {"auth", "triage", ""}
SupportedTasks == {"completeness", "auth", "bundle"}
\* The body's referral: absent; without id, patient and specialty; scenario
\* E's; one whose documents hold a null.
Referrals ==
    {NullReferral, Referral(FALSE, NoDocuments), LargeReferral,
     Referral(TRUE, Documents("caller", <<NullDoc>>))}
\* query: the value of the URL's debug parameter; xdebug: the x-debug
\* header; "" when absent.  DebugFlags: the pairs of them the extraction is
\* checked with.
DebugFlags ==
    {<<"", "">>, <<"1", "">>, <<"0", "">>, <<"true", "">>,
     <<"", "1">>, <<"", "true">>, <<"", "yes">>, <<"0", "true">>}
Requests ==
    [method : Methods, task : Tasks, referral : Referrals,
     key : BOOLEAN, query : {"", "1"}, xdebug : {""}]
NoReq == [method |-> "", task |-> "", referral |-> NullReferral,
          key |-> FALSE, query |-> "", xdebug |-> ""]

\* Mutant of debugOf: any x-debug header sets the flag.
debugOf_anyHeader(r) == r.query = "1" \/ r.xdebug # ""

\* debug: searchParams.get("debug") === "1", or else the x-debug header
\* being "1" or "true".
debugOf(r) == r.query = "1" \/ r.xdebug = "1" \/ r.xdebug = "true"

\* What resp.json() and the extraction make of a 2xx response.
(***************************************************************************)
(* The extraction of handler.  The model's text is a string of tokens:     *)
(* "{" and "}", "m" (a member with a scalar value, separators included;    *)
(* a "{" inside an object is a member whose value is an object) and "x"    *)
(* (a character of prose).  A parsed value is a tree.                      *)
(***************************************************************************)
MaxTextLen == 5       \* tokens of an arbitrary upstream text
MaxKids == 2          \* members of an object of a payload
MaxProse == 2         \* tokens of commentary on either side of a payload

Tokens == {"{", "}", "m", "x"}

Member == [leaf |-> TRUE, kids |-> <<>>]
Object(kids) == [leaf |-> FALSE, kids |-> kids]
NoTree == Member

ParseError == [ok |-> FALSE, tree |-> NoTree, next |-> 0]

\* JSON.parse on tokens: an object from s[i] on, and the members of an
\* object up to its closing brace.  [ok, tree, next].
RECURSIVE parseObject(_, _), parseMembers(_, _, _)
parseObject(s, i) ==
    IF i > Len(s) \/ s[i] # "{" THEN ParseError
    ELSE parseMembers(s, i + 1, <<>>)
parseMembers(s, i, acc) ==
    IF i > Len(s) THEN ParseError
    ELSE CASE s[i] = "}" -> [ok |-> TRUE, tree |-> Object(acc), next |-> i + 1]
           [] s[i] = "m" -> parseMembers(s, i + 1, Append(acc, Member))
           [] s[i] = "{" -> LET v == parseObject(s, i) IN
                            IF v.ok THEN parseMembers(s, v.next, Append(acc, v.tree))
                            ELSE ParseError
           [] OTHER -> ParseError

\* JSON.parse(s): the whole of s is one value, or it throws.
JSONparse(s) ==
    LET v == parseObject(s, 1) IN
    IF v.ok /\ v.next = Len(s) + 1 THEN v ELSE ParseError

\* JSON.stringify of a tree.
RECURSIVE JSONstringify(_), stringifyAll(_)
JSONstringify(t) ==
    IF t.leaf THEN <<"m">>
    ELSE <<"{">> \o stringifyAll(t.kids) \o <<"}">>
stringifyAll(kids) ==
    IF kids = <<>> THEN <<>>
    ELSE JSONstringify(Head(kids)) \o stringifyAll(Tail(kids))

\* content.indexOf(c) and content.lastIndexOf(c), counted from 1: 0 is -1.
indexOf(s, c) ==
    IF \E i \in 1..Len(s) : s[i] = c
    THEN CHOOSE i \in 1..Len(s) : s[i] = c /\ \A j \in 1..(i - 1) : s[j] # c
    ELSE 0

\* Mutant of lastIndexOf: the first occurrence.
lastIndexOf_first(s, c) == indexOf(s, c)

lastIndexOf(s, c) ==
    IF \E i \in 1..Len(s) : s[i] = c
    THEN CHOOSE i \in 1..Len(s) : s[i] = c /\ \A j \in (i + 1)..Len(s) : s[j] # c
    ELSE 0

\* Mutant of extractJSON: a span that does not parse counts as an empty
\* object.
extractJSON_lenient(s) ==
    LET start == indexOf(s, "{")
        end == lastIndexOf(s, "}")
    IN IF start = 0 \/ end = 0 THEN [kind |-> "no brace", tree |-> NoTree]
       ELSE LET v == JSONparse(SubSeq(s, start, end)) IN
            [kind |-> "parsed", tree |-> IF v.ok THEN v.tree ELSE Object(<<>>)]

\* start = content.indexOf("{"), end = content.lastIndexOf("}"), and
\* JSON.parse(content.slice(start, end + 1)).
extractJSON(s) ==
    LET start == indexOf(s, "{")
        end == lastIndexOf(s, "}")
    IN IF start = 0 \/ end = 0 THEN [kind |-> "no brace", tree |-> NoTree]
       ELSE LET v == JSONparse(SubSeq(s, start, end)) IN
            IF v.ok THEN [kind |-> "parsed", tree |-> v.tree]
            ELSE [kind |-> "unparsable", tree |-> NoTree]

\* What a 2xx response holds: whether resp.json() settles or throws, the
\* text of choices[0].message.content ("" when absent), and of the object
\* that text holds, its score and whether it has the task's shape.  origin
\* is the payload the upstream serialized into the text, when that is known.
Scores == {-5, 0, 85, 100, 150}
NoOrigin == [known |-> FALSE, payload |-> NoTree]
Content(json, text, score, conforms) ==
    [json |-> json, text |-> text, score |-> score, conforms |-> conforms,
     origin |-> NoOrigin]
NoContent == Content("none", <<>>, 0, TRUE)

\* The contents an invocation meets: a body that is no JSON; a text without
\* braces; with its braces reversed; with prose between its braces; a
\* payload between commentary, its score out of range; a bare payload; a
\* bare payload without the task's shape.
Contents ==
    {Content("throws", <<>>, 0, TRUE),
     Content("ok", <<"x">>, 0, TRUE),
     Content("ok", <<"}", "{">>, 0, TRUE),
     Content("ok", <<"{", "x", "}">>, 0, TRUE),
     Content("ok", <<"x", "{", "m", "}", "x">>, 150, TRUE),
     Content("ok", <<"{", "m", "}">>, 85, TRUE),
     Content("ok", <<"{", "m", "}">>, 85, FALSE)}

\* The texts of at most n tokens.
TextsUpTo(n) == UNION {[1..k -> Tokens] : k \in 0..n}

\* The payloads: objects of at most MaxKids members, a member being a
\* scalar or such an object of scalars.
Payloads ==
    LET flat == {Object(k) : k \in UNION {[1..n -> {Member}] : n \in 0..MaxKids}}
    IN {Object(k) : k \in UNION {[1..n -> {Member} \cup flat] : n \in 0..MaxKids}}

\* Commentary without braces.
Prose == UNION {[1..n -> {"x"}] : n \in 0..MaxProse}

\* The contents the extraction is applied to: every text of at most
\* MaxTextLen tokens, every payload between commentary, a payload with
\* every score, and the contents above.
UpstreamContents ==
    {Content("ok", t, 85, TRUE) : t \in TextsUpTo(MaxTextLen)}
        \cup {[Content("ok", a \o JSONstringify(p) \o b, 85, TRUE)
                  EXCEPT !.origin = [known |-> TRUE, payload |-> p]] :
                 a \in Prose, p \in Payloads, b \in Prose}
        \cup {Content("ok", <<"{", "m", "}">>, n, TRUE) : n \in Scores}
        \cup Contents

\* raw: debug ? content : undefined
NoRaw == [present |-> FALSE, text |-> <<>>]
rawOf(debug, text) == IF debug THEN [present |-> TRUE, text |-> text] ELSE NoRaw

NoScore == -1000

\* A response on res: its status, its error, its raw, its detail, and of
\* its result, when it has one (ok: true): whether it has the task's shape,
\* the parsed value and its score.  ok is the body's ok ("undefined" when
\* the body has none), diagnostics whether the body has openai and rate.
Reply(status, error, raw) ==
    [status |-> status, error |-> error, raw |-> raw, result |-> "none",
     tree |-> NoTree, score |-> NoScore, detail |-> "undefined",
     ok |-> "undefined", diagnostics |-> FALSE]

\* The response of handler's catch.
ServerError == [Reply(500, "Server error", NoRaw) EXCEPT !.detail = "String(e)"]

\* The checks of handler before sanitizeReferral: the early response, or
\* status 0 when the request passes.
\* Mutant of validate: the key is not looked at.
validate_noKey(b, r) ==
    IF r.method # "POST" THEN Reply(405, "Method not allowed", NoRaw)
    ELSE IF r.task = "" \/ r.referral.kind = "null"
    THEN Reply(400, "Missing task or referral", NoRaw)
    ELSE IF b = "part_005" /\ ~r.referral.structured
    THEN Reply(400, "Invalid referral structure - missing required fields", NoRaw)
    ELSE Reply(0, "", NoRaw)

\* The checks of handler before sanitizeReferral: the response of the first
\* that fails, or status 0.
validate(b, r) ==
    IF r.method # "POST" THEN Reply(405, "Method not allowed", NoRaw)
    ELSE IF r.task = "" \/ r.referral.kind = "null"
    THEN Reply(400, "Missing task or referral", NoRaw)
    ELSE IF b = "part_005" /\ ~r.referral.structured
    THEN Reply(400, "Invalid referral structure - missing required fields", NoRaw)
    ELSE IF ~r.key THEN Reply(500, "Server missing OPENAI_API_KEY", NoRaw)
    ELSE Reply(0, "", NoRaw)

NoPayload == [task |-> "", referral |-> NullReferral]

\* Mutant of payloadOf: the prompt is rendered from the request's referral.
payloadOf_raw(r, safe) == [task |-> r.task, referral |-> r.referral]

\* payload: the prompt of the task, rendered with JSON.stringify(safeReferral).
payloadOf(r, safe) == [task |-> r.task, referral |-> safe.value]

\* Mutant of prepare: a task without prompt is not turned away.
prepare_anyTask(r, safe) ==
    IF safe.state = "threw" THEN ServerError
    ELSE Reply(0, "", NoRaw)

\* handler from sanitizeReferral to the payload: the catch's response when
\* sanitizeReferral throws, the response to a task that has no prompt, or
\* status 0 when the payload is built.
prepare(r, safe) ==
    IF safe.state = "threw" THEN ServerError
    ELSE IF r.task \notin SupportedTasks THEN Reply(400, "Unsupported task", NoRaw)
    ELSE Reply(0, "", NoRaw)

\* if (!resp || !resp.ok): the error response after callOpenAIWithRetries.
RequestLimitHint == "Request limit reached. Please try again later."
TokenLimitHint == "Token limit reached. Please try again later."
GenericHint == "Rate limit exceeded. Please try again in a moment."

\* Mutant of detailOf: the token limit is looked at first.
detailOf_tokensFirst(b, status, rate) ==
    IF b = "part_005" /\ status = 429
    THEN IF rate.remainingTokens = "0" THEN TokenLimitHint
         ELSE IF rate.remainingRequests = "0" THEN RequestLimitHint
         ELSE GenericHint
    ELSE "errText"

\* detail: errText, or in part_005 after a 429 the hint made from rate.
detailOf(b, status, rate) ==
    IF b = "part_005" /\ status = 429
    THEN IF rate.remainingRequests = "0" THEN RequestLimitHint
         ELSE IF rate.remainingTokens = "0" THEN TokenLimitHint
         ELSE GenericHint
    ELSE "errText"

upstreamError(b, r) ==
    LET status == IF r.status # 0 THEN r.status ELSE 502 IN
    [Reply(status,
           IF b = "part_005" /\ status = 429 THEN "Rate limit exceeded"
           ELSE "OpenAI error",
           NoRaw)
       EXCEPT !.detail = detailOf(b, status, r.rate), !.diagnostics = TRUE]

\* The responses after a 2xx upstream response: the catch's when
\* resp.json() throws, else by what the extraction finds.
extracted(r, content) ==
    IF content.json = "throws" THEN ServerError
    ELSE LET e == extractJSON(content.text)
             raw == rawOf(debugOf(r), content.text)
         IN CASE e.kind = "no brace" ->
                     [Reply(502, "Model did not return JSON", raw)
                          EXCEPT !.diagnostics = TRUE]
              [] e.kind = "unparsable" ->
                     [Reply(502, "Failed to parse JSON from model", raw)
                          EXCEPT !.diagnostics = TRUE]
              [] OTHER ->
                     [Reply(200, "", raw) EXCEPT
                          !.ok = "true", !.diagnostics = TRUE,
                          !.result = IF content.conforms THEN "object" ELSE "misshapen",
                          !.tree = e.tree,
                          !.score = content.score]

\* while (attempt < maxAttempts) { attempt++; fetch(...) }, or the return
\* after the loop.
loopHead(a, b) ==
    IF a < maxAttempts(b)
    THEN [next |-> "fetch", attempt |-> a + 1]
    ELSE [next |-> "fallthrough", attempt |-> a]

(***************************************************************************)
(* ReferralDetail (part_000, and the earlier src/components/               *)
(* ReferralDetail.tsx): the component's state, its effect on [referral,    *)
(* useLLM] and analyzePdf.  The gateway is what its answer to the fetch of *)
(* remote.ts is.  A referral is its id and whether analyzePdf has put the  *)
(* extracted text into it.                                                 *)
(***************************************************************************)
MaxEvents == 3        \* what the user does: selections, switches of useLLM,
                      \* clicks on Analyze PDF

Components == {"part_000", "ReferralDetail.tsx"}
RefIds == {1, 2}
UIRef(id, analysed) == [id |-> id, analysed |-> analysed]

\* lib/ai: the local heuristics, and what the gateway's result is made of.
assessCompleteness(ref) == [by |-> "assessCompleteness", of |-> ref]
predictAuth(ref) == [by |-> "predictAuth", of |-> ref]
llmResult(ref) == [by |-> "llm", of |-> ref]

\* The answers to a fetch of remote.ts: an HTTP status with a JSON body, a
\* 2xx whose body is no JSON, a rejection.
Answers ==
    {[kind |-> "http", status |-> st] : st \in {200, 400, 429, 500, 502}}
        \cup {[kind |-> "not json", status |-> 200], [kind |-> "reject", status |-> 0]}

\* evalBundleLLM, evalCompletenessLLM, evalAuthLLM: result or throw.
evalThrows(answer) == ~(answer.kind = "http" /\ answer.status \in 200..299)

NoPdf == [at |-> "idle", updated |-> UIRef(0, FALSE), useLLM |-> FALSE,
          stale |-> FALSE]
NoEvent == [kind |-> "none", by |-> "none", abandoned |-> FALSE, at |-> "none"]

\* The first await of run(): the bundle, or the first of the two calls.
firstCall(component) == IF component = "part_000" THEN "bundle" ELSE "completeness"

\* setComp(assessCompleteness(ref)); setAuth(predictAuth(ref));
\* setAiSummary("").
setLocal(u, ref) ==
    [u EXCEPT !.comp = assessCompleteness(ref), !.auth = predictAuth(ref),
              !.aiSummary = ""]

\* The props are now (ref, llm): the cleanup of the effect that ran before
\* sets its cancelled, and the effect runs for the new props.  runs holds
\* the run()s that are not over, the latest last.
runEffect(u, ref, llm) ==
    LET cleaned == [i \in DOMAIN u.runs |-> [u.runs[i] EXCEPT !.cancelled = TRUE]]
        v == [u EXCEPT !.referral = ref, !.useLLM = llm, !.runs = cleaned,
                       !.mounted = TRUE]
    IN IF llm
       THEN [v EXCEPT !.runs = Append(cleaned, [referral |-> ref, cancelled |-> FALSE,
                                                at |-> firstCall(u.component)])]
       ELSE setLocal(v, ref)

\* Mutant of afterAnswer: each call's result is set as it arrives, and a
\* call that fails falls back for its own part only.
afterAnswer_perCall(u, r, answer) ==
    LET shown == [comp |-> u.comp, auth |-> u.auth, aiSummary |-> u.aiSummary]
        ended == [r EXCEPT !.at = "done"]
        next == IF r.at = "completeness" THEN [r EXCEPT !.at = "auth"] ELSE ended
        comp == IF r.at = "auth" THEN u.comp
                ELSE IF evalThrows(answer) THEN assessCompleteness(r.referral)
                ELSE llmResult(r.referral)
        auth == IF r.at = "completeness" THEN u.auth
                ELSE IF evalThrows(answer) THEN predictAuth(r.referral)
                ELSE llmResult(r.referral)
    IN [run |-> next,
        shown |-> IF r.cancelled THEN shown
                  ELSE [comp |-> comp, auth |-> auth,
                        aiSummary |-> IF r.at = "bundle" /\ ~evalThrows(answer)
                                      THEN "summary" ELSE u.aiSummary]]

\* The continuation of run() r after the answer to its fetch: the new
\* [run, comp, auth, aiSummary].
afterAnswer(u, r, answer) ==
    LET shown == [comp |-> u.comp, auth |-> u.auth, aiSummary |-> u.aiSummary]
        ended == [r EXCEPT !.at = "done"]
    IN IF evalThrows(answer)
       THEN [run |-> ended,
             shown |-> IF r.cancelled THEN shown
                       ELSE [comp |-> assessCompleteness(r.referral),
                             auth |-> predictAuth(r.referral),
                             aiSummary |-> ""]]
       ELSE IF r.at = "completeness"
       THEN [run |-> [r EXCEPT !.at = "auth"], shown |-> shown]
       ELSE [run |-> ended,
             shown |-> IF r.cancelled THEN shown
                       ELSE [comp |-> llmResult(r.referral),
                             auth |-> llmResult(r.referral),
                             aiSummary |-> IF r.at = "bundle" THEN "summary" ELSE u.aiSummary]]

NoUI ==
    [component |-> "part_000", onUpdate |-> FALSE, referral |-> UIRef(1, FALSE),
     useLLM |-> FALSE, mounted |-> FALSE,
     comp |-> assessCompleteness(UIRef(1, FALSE)),
     auth |-> predictAuth(UIRef(1, FALSE)), aiSummary |-> "",
     runs |-> <<>>, pdf |-> NoPdf, last |-> NoEvent, events |-> 0]

(***************************************************************************)
(* The outbox: App's lowConnectivity and queue, ReferralDetail's held, and *)
(* the buttons that hold a slot, notify the referrer and notify the        *)
(* patient (those of DistanceAnalysis and InsuranceAnalysis included).  A  *)
(* text is its fixed prefix and its body; a body is what it is about, its  *)
(* case and a number (miles, or the slot).                                 *)
(***************************************************************************)
MaxOutbox == 2        \* actions queued before the user processes the queue

Slots == {1, 2}
NoSlot == 0

Msg(about, case, n) == [about |-> about, case |-> case, n |-> n]
NoMessage == Msg("none", "", 0)
Text(prefix, body) == [prefix |-> prefix, body |-> body]
NoText == Text("", NoMessage)

\* comp.draftReferrerAsk, comp.draftPatientSMS
draftReferrerAsk(comp) == Msg("draftReferrerAsk", comp.by, comp.of.id)
draftPatientSMS(comp) == Msg("draftPatientSMS", comp.by, comp.of.id)

\* DistanceAnalysis: generatePatientMessage, null within the warning
\* distance.
MAX_DISTANCE_MILES == 50
WARNING_DISTANCE_MILES == 30
Miles == {10, 30, 40, 50, 60}

generatePatientMessage(distanceMiles, telefit) ==
    LET isTooFar == distanceMiles > MAX_DISTANCE_MILES
        isWarningDistance == distanceMiles > WARNING_DISTANCE_MILES /\ ~isTooFar
    IN IF isTooFar THEN Msg("distance", "outside our service area", distanceMiles)
       ELSE IF isWarningDistance /\ ~telefit
       THEN Msg("distance", "we offer telemedicine visits", distanceMiles)
       ELSE IF isWarningDistance /\ telefit
       THEN Msg("distance", "telemedicine appointment scheduled", distanceMiles)
       ELSE NoMessage

\* InsuranceAnalysis: generatePatientMessage, from the risk level of the
\* analysis and the coverage.
RiskLevels == {"high", "medium", "low"}
Coverages ==
    {c \in [risk : RiskLevels, active : BOOLEAN, inNetwork : BOOLEAN,
            priorAuthRequired : BOOLEAN] : ~c.active => c.risk = "high"}

generateInsuranceMessage(c) ==
    IF c.risk = "high"
    THEN IF ~c.active THEN Msg("insurance", "verify your insurance coverage", 0)
         ELSE IF ~c.inNetwork THEN Msg("insurance", "out-of-network", 0)
         ELSE Msg("insurance", "verify some insurance details", 0)
    ELSE IF c.risk = "medium"
    THEN IF c.priorAuthRequired
         THEN Msg("insurance", "requires prior authorization", 0)
         ELSE Msg("insurance", "confirmed, call with questions", 0)
    ELSE Msg("insurance", "confirmed, see you soon", 0)

\* Mutant of enqueue: the queue is set to the new item alone.
enqueue_alone(q, action) == <<[action |-> action]>>

\* enqueue: setQueue(q => [...q, item])
enqueue(q, action) == Append(q, [action |-> action])

NoClick == [button |-> "none", passed |-> NoMessage, delivered |-> NoText,
            queued |-> FALSE]

NoOutbox == [lowConnectivity |-> FALSE, queue |-> <<>>, held |-> NoSlot,
             last |-> NoClick]

(***************************************************************************)
(* The handler's actions.                                                  *)
(***************************************************************************)
InitH ==
    /\ pc = "idle"
    /\ req = NoReq
    /\ attempt = 0
    /\ lastErrText = NoErrText
    /\ lastHeaders = NoHeaders
    /\ timer = NoTimer
    /\ ret = NoRet
    /\ res = <<>>
    /\ lastResp = [kind |-> "none", status |-> 0, retryAfter |-> 0, attempt |-> 0]
    /\ backoff = NoBackoff
    /\ gap = 0
    /\ requests = 0
    /\ waits = 0
    /\ acquires = 0
    /\ allRetryable = TRUE
    /\ only429 = TRUE
    /\ waitedRetryAfter = TRUE
    /\ callerReferral = NullReferral
    /\ safeReferral = NotSanitized
    /\ payload = NoPayload
    /\ upstream = NoContent
    /\ abandoned = FALSE
    /\ ui = NoUI
    /\ outbox = NoOutbox

\* handler up to its first await on a timer or on fetch: the checks and the
\* call of throttleGlobal.
handlerStartOf(S) ==
    /\ pc = "idle"
    /\ \E r \in S :
         LET checked == validate(build, r)
             s == sanitizeReferral(r.referral)
             v == IF checked.status # 0 THEN checked
                  ELSE prepare(r, [state |-> s.state, value |-> s.value])
         IN
         /\ req' = r
         /\ callerReferral' = IF checked.status # 0 THEN r.referral ELSE s.caller
         /\ safeReferral' = IF checked.status # 0 THEN NotSanitized
                            ELSE [state |-> s.state, value |-> s.value]
         /\ payload' = IF v.status # 0 THEN NoPayload
                       ELSE payloadOf(r, [state |-> s.state, value |-> s.value])
         /\ IF v.status # 0
            THEN /\ res' = Append(res, v)
                 /\ pc' = "done"
                 /\ UNCHANGED <<rl, rlQ, qTimer, arrived, resolved, timer, acquires>>
            ELSE /\ UNCHANGED res
                 /\ IF build = "evaluate"
                    THEN \E j \in Jitter :
                           LET t == throttleEnter(rl, now, j) IN
                           /\ rl' = t.rl
                           /\ timer' = t.timer
                           /\ acquires' = IF t.timer = NoTimer THEN acquires + 1 ELSE acquires
                           /\ pc' = IF t.timer = NoTimer THEN "admitted" ELSE "throttle"
                           /\ UNCHANGED <<rlQ, qTimer, arrived, resolved>>
                    ELSE \E j \in JitterQ :
                           LET st == processQueue(
                                       [rl |-> [rlQ EXCEPT !.queue = Append(@, arrived + 1)],
                                        timer |-> qTimer, log |-> resolved], now, j)
                           IN /\ rlQ' = st.rl
                              /\ qTimer' = st.timer
                              /\ resolved' = st.log
                              /\ arrived' = arrived + 1
                              /\ acquires' = acquires + Len(st.log) - Len(resolved)
                              /\ pc' = IF Len(st.log) > Len(resolved)
                                       THEN "admitted" ELSE "throttle"
                              /\ UNCHANGED <<rl, timer>>
    /\ UNCHANGED <<now, sleepers, entered, admitted, build, attempt, lastErrText,
                   lastHeaders, ret, lastResp, backoff, gap, requests, waits,
                   allRetryable, only429, waitedRetryAfter, upstream, abandoned, ui, outbox>>

handlerStart == handlerStartOf(Requests)

\* The same for one request that passes every check.
handlerStartValid ==
    handlerStartOf({[method |-> "POST", task |-> "auth", referral |-> LargeReferral,
                     key |-> TRUE, query |-> "", xdebug |-> ""]})

\* The caller abandons the evaluation while handler is at an await: the
\* effect's cleanup sets its own cancelled flag, the request stays open and
\* nothing in the gateway is told.
callerAbandons ==
    /\ pc \in {"throttle", "fetch", "backoff", "json"}
    /\ ~abandoned
    /\ abandoned' = TRUE
    /\ UNCHANGED <<now, varsQ, varsS, build, pc, req, attempt, lastErrText,
                   lastHeaders, timer, ret, res, lastResp, backoff, gap, requests,
                   waits, acquires, allRetryable, only429, waitedRetryAfter,
                   callerReferral, safeReferral, payload, upstream, ui, outbox>>

\* The timer the invocation's throttleGlobal waits on fires.
throttleWake ==
    /\ pc = "throttle"
    /\ \E late \in Lateness :
         IF build = "evaluate"
         THEN /\ now' = Max(now, timer) + late
              /\ rl' = throttleResume(rl, now')
              /\ timer' = NoTimer
              /\ acquires' = acquires + 1
              /\ pc' = "admitted"
              /\ UNCHANGED <<rlQ, qTimer, resolved>>
         ELSE /\ now' = Max(now, qTimer) + late
              /\ \E j \in JitterQ :
                   LET st == processQueueLoop(
                               [rl |-> rlQ, timer |-> NoTimer, log |-> resolved], now', j)
                   IN /\ rlQ' = st.rl
                      /\ qTimer' = st.timer
                      /\ resolved' = st.log
                      /\ acquires' = acquires + Len(st.log) - Len(resolved)
                      /\ pc' = IF Len(st.log) > Len(resolved)
                               THEN "admitted" ELSE "throttle"
              /\ UNCHANGED <<rl, timer>>
    /\ UNCHANGED <<arrived, sleepers, entered, admitted, build, req, attempt,
                   lastErrText, lastHeaders, ret, res, lastResp, backoff, gap,
                   requests, waits, allRetryable, only429, waitedRetryAfter,
                   callerReferral, safeReferral, payload,
                   upstream, abandoned, ui, outbox>>

\* The effect of reaching the loop head with attempt = a.
AtLoopHead(a) ==
    LET h == loopHead(a, build) IN
    /\ attempt' = h.attempt
    /\ IF h.next = "fetch"
       THEN /\ requests' = requests + 1
            /\ pc' = "fetch"
            /\ UNCHANGED ret
       ELSE /\ ret' = [kind |-> "fail", status |-> 0,
                       errText |-> lastErrText, rate |-> lastHeaders]
            /\ pc' = "returned"
            /\ UNCHANGED requests

\* throttleGlobal has resolved: handler calls callOpenAIWithRetries, which
\* runs to its first fetch.
callOpenAIWithRetries ==
    /\ pc = "admitted"
    /\ AtLoopHead(0)
    /\ UNCHANGED <<now, varsQ, varsS, build, req, lastErrText, lastHeaders, timer, res,
                   lastResp, backoff, gap, waits, acquires, allRetryable,
                   only429, waitedRetryAfter, callerReferral, safeReferral, payload,
                   upstream, abandoned, ui, outbox>>

\* fetch resolves with an HTTP response: the rest of the loop body.
fetchResponse ==
    /\ pc = "fetch"
    /\ \E status \in Statuses, bodyReadable \in BOOLEAN :
       \E retryAfter \in (IF retryable(status) THEN RetryAfters ELSE {0}) :
       \E jitter \in jitterOf(build, attempt, status, retryAfter) :
       \E rem \in Remaining(status,
                             onResponse(build, attempt, status, retryAfter, bodyReadable,
                                        lastErrText, lastHeaders, jitter).next) :
         LET p == onResponse(build, attempt, status, retryAfter, bodyReadable,
                             lastErrText, lastHeaders, jitter)
             o == [p EXCEPT !.headers = withRemaining(@, rem)]
         IN /\ RespOk(status) => bodyReadable
            /\ lastResp' = [kind |-> "http", status |-> status,
                            retryAfter |-> retryAfter, attempt |-> attempt]
            /\ allRetryable' = (allRetryable /\ retryable(status))
            /\ only429' = (only429 /\ (RespOk(status) \/ status = 429))
            /\ lastErrText' = o.errText
            /\ lastHeaders' = o.headers
            /\ IF o.next = "backoff"
               THEN /\ backoff' = [after |-> attempt, kind |-> "http", status |-> status,
                                   retryAfter |-> retryAfter, delay |-> o.delay]
                    /\ waits' = waits + 1
                    /\ pc' = "backoff"
                    /\ UNCHANGED ret
               ELSE /\ ret' = [kind |-> o.next, status |-> status,
                               errText |-> IF o.next = "fail" THEN o.errText ELSE NoErrText,
                               rate |-> o.headers]
                    /\ backoff' = NoBackoff
                    /\ pc' = "returned"
                    /\ UNCHANGED waits
    /\ gap' = 0
    /\ UNCHANGED <<now, varsQ, varsS, build, req, attempt, timer, res, requests,
                   acquires, waitedRetryAfter, callerReferral, safeReferral, payload,
                   upstream, abandoned, ui, outbox>>

\* fetch rejects: a transport failure or a timeout.
fetchReject ==
    /\ pc = "fetch"
    /\ LET o == onReject(build, attempt) IN
       /\ lastResp' = [kind |-> "reject", status |-> 0, retryAfter |-> 0,
                       attempt |-> attempt]
       /\ allRetryable' = FALSE
       /\ only429' = FALSE
       /\ IF o.next = "backoff"
          THEN /\ backoff' = [after |-> attempt, kind |-> "reject", status |-> 0,
                              retryAfter |-> 0, delay |-> o.delay]
               /\ waits' = waits + 1
               /\ pc' = "backoff"
               /\ UNCHANGED ret
          ELSE /\ ret' = IF o.next = "throw"
                         THEN [NoRet EXCEPT !.kind = "threw"]
                         ELSE [kind |-> "fail", status |-> 0,
                               errText |-> [from |-> attempt, text |-> "Network error"],
                               rate |-> lastHeaders]
               /\ backoff' = NoBackoff
               /\ pc' = "returned"
               /\ UNCHANGED waits
    /\ gap' = 0
    /\ UNCHANGED <<now, varsQ, varsS, build, req, attempt, lastErrText, lastHeaders,
                   timer, res, requests, acquires, waitedRetryAfter,
                   callerReferral, safeReferral, payload,
                   upstream, abandoned, ui, outbox>>

\* The backoff's setTimeout fires, backoff.delay ms after it was set or
\* later: back to the loop head.
backoffWake ==
    /\ pc = "backoff"
    /\ \E late \in Lateness : gap' = backoff.delay + late
    /\ waitedRetryAfter' = (waitedRetryAfter /\ gap' >= backoff.retryAfter * 1000)
    /\ AtLoopHead(attempt)
    /\ UNCHANGED <<now, varsQ, varsS, build, req, lastErrText, lastHeaders, timer, res,
                   lastResp, backoff, waits, acquires, allRetryable, only429,
                   callerReferral, safeReferral, payload,
                   upstream, abandoned, ui, outbox>>

\* Mutant of handlerAfterCall: no return after the upstream failure's response.
handlerAfterCall_noReturn ==
    /\ pc = "returned"
    /\ res' = IF ret.kind = "threw" THEN Append(res, ServerError)
              ELSE IF ret.kind = "fail" THEN Append(res, upstreamError(build, ret))
              ELSE res
    /\ pc' = IF ret.kind = "threw" THEN "done" ELSE "json"
    /\ UNCHANGED <<now, varsQ, varsS, build, req, attempt, lastErrText, lastHeaders,
                   timer, ret, lastResp, backoff, gap, requests, waits,
                   acquires, allRetryable, only429, waitedRetryAfter,
                   callerReferral, safeReferral, payload, upstream, abandoned, ui, outbox>>

\* callOpenAIWithRetries is over: handler answers an upstream failure, or its
\* catch answers an exception, or it goes on to await resp.json().
handlerAfterCall ==
    /\ pc = "returned"
    /\ IF ret.kind = "threw"
       THEN /\ res' = Append(res, ServerError)
            /\ pc' = "done"
       ELSE IF ret.kind = "fail"
       THEN /\ res' = Append(res, upstreamError(build, ret))
            /\ pc' = "done"
       ELSE /\ pc' = "json"
            /\ UNCHANGED res
    /\ UNCHANGED <<now, varsQ, varsS, build, req, attempt, lastErrText, lastHeaders,
                   timer, ret, lastResp, backoff, gap, requests, waits,
                   acquires, allRetryable, only429, waitedRetryAfter,
                   callerReferral, safeReferral, payload,
                   upstream, abandoned, ui, outbox>>

\* resp.json() settles with one of the contents of S: extraction, parsing
\* and the response.
respJson(S) ==
    /\ pc = "json"
    /\ \E content \in S :
         /\ upstream' = content
         /\ res' = Append(res, extracted(req, content))
    /\ pc' = "done"
    /\ UNCHANGED <<now, varsQ, varsS, build, req, attempt, lastErrText, lastHeaders,
                   timer, ret, lastResp, backoff, gap, requests, waits,
                   acquires, allRetryable, only429, waitedRetryAfter,
                   callerReferral, safeReferral, payload, abandoned, ui, outbox>>

\* Mutant of handlerExtract: a content without a payload sends handler back
\* to the upstream.
handlerExtract_retry ==
    /\ pc = "json"
    /\ \E content \in Contents :
         /\ upstream' = content
         /\ IF extracted(req, content).status = 502 /\ requests < 3
            THEN /\ requests' = requests + 1
                 /\ pc' = "fetch"
                 /\ UNCHANGED res
            ELSE /\ res' = Append(res, extracted(req, content))
                 /\ pc' = "done"
                 /\ UNCHANGED requests
    /\ UNCHANGED <<now, varsQ, varsS, build, req, attempt, lastErrText, lastHeaders,
                   timer, ret, lastResp, backoff, gap, waits, acquires,
                   allRetryable, only429, waitedRetryAfter, callerReferral,
                   safeReferral, payload, abandoned, ui, outbox>>

handlerExtract == respJson(Contents)

\* The same over every content of UpstreamContents.
handlerExtractAny == respJson(UpstreamContents)

\* sanitizeReferral applied to a referral, as handler applies it to the
\* request's.
sanitizeReferralCall ==
    /\ safeReferral = NotSanitized
    /\ \E r \in ReferralInputs :
         LET s == sanitizeReferral(r) IN
         /\ req' = [NoReq EXCEPT !.referral = r]
         /\ callerReferral' = s.caller
         /\ safeReferral' = [state |-> s.state, value |-> s.value]
    /\ UNCHANGED <<now, varsQ, varsS, build, pc, attempt, lastErrText, lastHeaders,
                   timer, ret, res, lastResp, backoff, gap, requests, waits,
                   acquires, allRetryable, only429, waitedRetryAfter, payload,
                   upstream, abandoned, ui, outbox>>

(***************************************************************************)
(* The specifications: each limiter under concurrent callers, and one      *)
(* invocation of handler on a warm instance whose bucket earlier           *)
(* invocations have left full or empty.  callOpenAIWithRetries never reads *)
(* the clock: its waits are recorded as durations (backoff.delay, gap),    *)
(* and now moves only where the limiter waits.                             *)
(***************************************************************************)
NextHandler ==
    \/ handlerStart
    \/ throttleWake
    \/ callOpenAIWithRetries
    \/ fetchResponse
    \/ fetchReject
    \/ backoffWake
    \/ handlerAfterCall
    \/ handlerExtract

InitHandler ==
    /\ now = 0
    /\ build \in Builds
    /\ InitH
    /\ \E full \in BOOLEAN :
         /\ rl = [tokens |-> IF full THEN capacity * OneToken ELSE 0, last |-> 0]
         /\ rlQ = [tokens |-> IF full THEN capacityQ * OneToken ELSE 0, last |-> 0,
                   queue |-> <<>>, processing |-> FALSE]
    /\ qTimer = NoTimer
    /\ arrived = 0
    /\ resolved = <<>>
    /\ sleepers = [c \in 1..MaxCallersS |-> NoTimer]
    /\ entered = 0
    /\ admitted = <<>>

Spec == InitHandler /\ [][NextHandler]_vars

NextSleep == throttleGlobalCall \/ throttleGlobalWake \/ TickS

InitSleep == now = 0 /\ build = "evaluate" /\ InitS /\ InitQ /\ InitH

SpecSleep == InitSleep /\ [][NextSleep]_vars

NextQueue == throttleGlobalQ \/ processQueueWake \/ TickQ

InitQueue == now = 0 /\ build = "part_005" /\ InitQ /\ InitS /\ InitH

SpecQueue == InitQueue /\ [][NextQueue]_vars

\* sanitizeReferral on its own, over the referrals of ReferralInputs.
NextSanitize == sanitizeReferralCall

InitSanitize == now = 0 /\ build \in Builds /\ InitS /\ InitQ /\ InitH

SpecSanitize == InitSanitize /\ [][NextSanitize]_vars

(***************************************************************************)
(* One invocation whose caller may abandon it at any await.                *)
(***************************************************************************)
NextCancel ==
    \/ handlerStartValid
    \/ throttleWake
    \/ callOpenAIWithRetries
    \/ fetchResponse
    \/ fetchReject
    \/ backoffWake
    \/ handlerAfterCall
    \/ handlerExtract
    \/ callerAbandons

InitCancel == InitHandler

SpecCancel == InitCancel /\ [][NextCancel]_vars

(***************************************************************************)
(* ReferralDetail's actions.                                               *)
(***************************************************************************)
UIFrame == UNCHANGED <<now, varsQ, varsS, build, pc, req, attempt, lastErrText,
                       lastHeaders, timer, ret, res, lastResp, backoff, gap,
                       requests, waits, acquires, allRetryable, only429,
                       waitedRetryAfter, callerReferral, safeReferral, payload,
                       upstream, abandoned, outbox>>

\* The component mounts: the effect runs for the first time.
Mount ==
    /\ ~ui.mounted
    /\ ui' = [runEffect(ui, ui.referral, ui.useLLM) EXCEPT !.last = NoEvent]
    /\ UIFrame

\* The parent selects another referral.
SelectReferral ==
    /\ ui.mounted
    /\ ui.events < MaxEvents
    /\ \E id \in RefIds \ {ui.referral.id} :
         ui' = [runEffect(ui, UIRef(id, FALSE), ui.useLLM) EXCEPT
                    !.events = @ + 1, !.last = NoEvent,
                    !.pdf.stale = TRUE]
    /\ UIFrame

\* The parent switches useLLM.
ToggleLLM ==
    /\ ui.mounted
    /\ ui.events < MaxEvents
    /\ ui' = [runEffect(ui, ui.referral, ~ui.useLLM) EXCEPT
                  !.events = @ + 1, !.last = NoEvent, !.pdf.stale = TRUE]
    /\ UIFrame

without(q, i) == SubSeq(q, 1, i - 1) \o SubSeq(q, i + 1, Len(q))

\* The gateway answers the fetch a run() awaits.
EffectAnswer ==
    /\ \E i \in DOMAIN ui.runs, answer \in Answers :
         /\ ui.runs[i].at # "done"
         /\ LET a == afterAnswer(ui, ui.runs[i], answer) IN
            ui' = [ui EXCEPT !.runs = IF a.run.at = "done" THEN without(@, i)
                                      ELSE [@ EXCEPT ![i] = a.run],
                             !.comp = a.shown.comp,
                             !.auth = a.shown.auth, !.aiSummary = a.shown.aiSummary,
                             !.last = [kind |-> IF evalThrows(answer) THEN "error"
                                                ELSE "ok",
                                       by |-> "effect",
                                       abandoned |-> ui.runs[i].cancelled,
                                       at |-> ui.runs[i].at]]
    /\ UIFrame

\* analyzePdf up to its await of extractPdfText: the button is enabled
\* while busy is false; without a PDF it alerts and returns.
analyzePdf ==
    /\ ui.component = "part_000"
    /\ ui.mounted
    /\ ui.pdf.at = "idle"
    /\ ui.events < MaxEvents
    /\ \E hasPdf \in BOOLEAN :
         ui' = [ui EXCEPT !.events = @ + 1,
                          !.pdf = IF hasPdf
                                  THEN [at |-> "extract",
                                        updated |-> UIRef(ui.referral.id, TRUE),
                                        useLLM |-> ui.useLLM, stale |-> FALSE]
                                  ELSE NoPdf,
                          !.last = NoEvent]
    /\ UIFrame

\* extractPdfText settles: it threw or gave no text (alert), or updated is
\* made and pushed up with onUpdate, which when given makes it the referral
\* prop if its referral is still the selected one; then the evaluation of
\* updated starts, or comp and auth are set from the local heuristics.
analyzePdfExtracted ==
    /\ ui.pdf.at = "extract"
    /\ \E text \in BOOLEAN :
         IF ~text
         THEN ui' = [ui EXCEPT !.pdf = NoPdf, !.last = NoEvent]
         ELSE LET u == IF ui.onUpdate /\ ui.referral.id = ui.pdf.updated.id
                       THEN runEffect(ui, ui.pdf.updated, ui.useLLM)
                       ELSE ui
              IN ui' = IF ui.pdf.useLLM
                       THEN [u EXCEPT !.pdf.at = "bundle", !.last = NoEvent]
                       ELSE [u EXCEPT !.comp = assessCompleteness(ui.pdf.updated),
                                      !.auth = predictAuth(ui.pdf.updated),
                                      !.pdf = NoPdf, !.last = NoEvent]
    /\ UIFrame

\* The gateway answers analyzePdf's evalBundleLLM(updated): the result is
\* set, or the catch alerts.
analyzePdfAnswer ==
    /\ ui.pdf.at = "bundle"
    /\ \E answer \in Answers :
         LET u == IF evalThrows(answer) THEN ui
                  ELSE [ui EXCEPT !.comp = llmResult(ui.pdf.updated),
                                  !.auth = llmResult(ui.pdf.updated),
                                  !.aiSummary = "summary"]
         IN ui' = [u EXCEPT !.pdf = NoPdf,
                            !.last = [kind |-> IF evalThrows(answer) THEN "error" ELSE "ok",
                                      by |-> "analyzePdf", abandoned |-> ui.pdf.stale,
                                      at |-> "bundle"]]
    /\ UIFrame

\* useState(() => assessCompleteness(referral)), useState(() =>
\* predictAuth(referral)), useState("").
InitUI ==
    /\ now = 0
    /\ build = "part_005"
    /\ InitS
    /\ InitQ
    /\ pc = "idle"
    /\ req = NoReq
    /\ attempt = 0
    /\ lastErrText = NoErrText
    /\ lastHeaders = NoHeaders
    /\ timer = NoTimer
    /\ ret = NoRet
    /\ res = <<>>
    /\ lastResp = [kind |-> "none", status |-> 0, retryAfter |-> 0, attempt |-> 0]
    /\ backoff = NoBackoff
    /\ gap = 0
    /\ requests = 0
    /\ waits = 0
    /\ acquires = 0
    /\ allRetryable = TRUE
    /\ only429 = TRUE
    /\ waitedRetryAfter = TRUE
    /\ callerReferral = NullReferral
    /\ safeReferral = NotSanitized
    /\ payload = NoPayload
    /\ upstream = NoContent
    /\ abandoned = FALSE
    /\ \E c \in Components, up \in BOOLEAN, llm \in BOOLEAN :
         /\ c = "ReferralDetail.tsx" => ~up
         /\ ui = [NoUI EXCEPT !.component = c, !.onUpdate = up, !.useLLM = llm]
    /\ outbox = NoOutbox

NextUI ==
    \/ Mount
    \/ SelectReferral
    \/ ToggleLLM
    \/ EffectAnswer
    \/ analyzePdf
    \/ analyzePdfExtracted
    \/ analyzePdfAnswer

SpecUI == InitUI /\ [][NextUI]_vars

(***************************************************************************)
(* The outbox's actions.                                                   *)
(***************************************************************************)
OutboxFrame == UNCHANGED <<now, varsQ, varsS, build, pc, req, attempt, lastErrText,
                           lastHeaders, timer, ret, res, lastResp, backoff, gap,
                           requests, waits, acquires, allRetryable, only429,
                           waitedRetryAfter, callerReferral, safeReferral, payload,
                           upstream, abandoned, ui>>

\* The header's button: setLowConnectivity(v => !v).
ToggleLowConnectivity ==
    /\ outbox' = [outbox EXCEPT !.lowConnectivity = ~@,
                                !.last = [NoClick EXCEPT !.button = "Low Connectivity"]]
    /\ OutboxFrame

\* A handler of ReferralDetail that queues its text under low connectivity
\* and else acts at once: the new outbox, after a click on button that
\* passed the handler the message passed.
deliver(o, button, passed, queuedText, shownText, held) ==
    IF o.lowConnectivity
    THEN [o EXCEPT !.queue = enqueue(@, queuedText),
                   !.last = [button |-> button, passed |-> passed,
                             delivered |-> queuedText, queued |-> TRUE]]
    ELSE [o EXCEPT !.held = held,
                   !.last = [button |-> button, passed |-> passed,
                             delivered |-> shownText, queued |-> FALSE]]

\* holdSlot(s): the Hold button of a suggested slot.
holdSlot ==
    /\ ui.mounted
    /\ outbox.lowConnectivity => Len(outbox.queue) < MaxOutbox
    /\ \E s \in Slots :
         outbox' = deliver(outbox, "Hold", NoMessage,
                           Text("Hold slot for ", Msg("hold", "slot", s)),
                           NoText, s)
    /\ OutboxFrame

\* notifyReferrer(): Fix & Notify Referrer.
notifyReferrer ==
    /\ ui.mounted
    /\ outbox.lowConnectivity => Len(outbox.queue) < MaxOutbox
    /\ outbox' = deliver(outbox, "Fix & Notify Referrer", NoMessage,
                         Text("Fax to referrer: ", draftReferrerAsk(ui.comp)),
                         Text("Fax drafted (mock):\n", draftReferrerAsk(ui.comp)),
                         outbox.held)
    /\ OutboxFrame

\* notifyPatient(), called with whatever the button's onClick passes: it
\* has no parameter.
notifyPatientWith(button, passed) ==
    /\ ui.mounted
    /\ outbox.lowConnectivity => Len(outbox.queue) < MaxOutbox
    /\ outbox' = deliver(outbox, button, passed,
                         Text("SMS to patient: ", draftPatientSMS(ui.comp)),
                         Text("SMS drafted (mock):\n", draftPatientSMS(ui.comp)),
                         outbox.held)
    /\ OutboxFrame

\* Notify Patient: onClick={notifyPatient}.
notifyPatient == notifyPatientWith("Notify Patient", NoMessage)

\* DistanceAnalysis's button, rendered when patientMessage is not null:
\* onClick={() => onNotifyPatient(patientMessage)}.
NotifyPatientAboutDistance ==
    /\ ui.component = "part_000"
    /\ \E distanceMiles \in Miles, telefit \in BOOLEAN :
         LET patientMessage == generatePatientMessage(distanceMiles, telefit) IN
         /\ patientMessage # NoMessage
         /\ notifyPatientWith("Notify Patient About Distance", patientMessage)

\* InsuranceAnalysis's button: onClick={() => onNotifyPatient(patientMessage)}.
NotifyPatientAboutInsurance ==
    /\ ui.component = "part_000"
    /\ \E c \in Coverages :
         notifyPatientWith("Notify Patient About Insurance",
                           generateInsuranceMessage(c))

\* flushQueue: Process n queued, rendered when the queue is not empty.
flushQueue ==
    /\ outbox.queue # <<>>
    /\ outbox' = [outbox EXCEPT !.queue = <<>>,
                                !.last = [NoClick EXCEPT !.button = "Process queued"]]
    /\ OutboxFrame

NextOutbox ==
    \/ Mount
    \/ ToggleLowConnectivity
    \/ holdSlot
    \/ notifyReferrer
    \/ notifyPatient
    \/ NotifyPatientAboutDistance
    \/ NotifyPatientAboutInsurance
    \/ flushQueue

SpecOutbox == InitUI /\ [][NextOutbox]_vars

(***************************************************************************)
(* The extraction alone: handler at its await of resp.json(), after a      *)
(* first upstream request answered 200 on a full bucket, and every content *)
(* of UpstreamContents.                                                    *)
(***************************************************************************)
ScoredTasks == {"completeness", "bundle"}

ExtractRequests ==
    {[method |-> "POST", task |-> "completeness", referral |-> LargeReferral,
      key |-> TRUE, query |-> f[1], xdebug |-> f[2]] : f \in DebugFlags}

InitExtract ==
    /\ now = 0
    /\ build \in Builds
    /\ req \in ExtractRequests
    /\ LET s == sanitizeReferral(req.referral)
           safe == [state |-> s.state, value |-> s.value]
       IN /\ callerReferral = s.caller
          /\ safeReferral = safe
          /\ payload = payloadOf(req, safe)
    /\ rl = [tokens |-> IF build = "evaluate" THEN (capacity - 1) * OneToken
                        ELSE capacity * OneToken,
             last |-> 0]
    /\ sleepers = [c \in 1..MaxCallersS |-> NoTimer]
    /\ entered = 0
    /\ admitted = <<>>
    /\ rlQ = [tokens |-> IF build = "part_005" THEN (capacityQ - 1) * OneToken
                         ELSE capacityQ * OneToken,
              last |-> 0, queue |-> <<>>, processing |-> FALSE]
    /\ qTimer = NoTimer
    /\ arrived = IF build = "part_005" THEN 1 ELSE 0
    /\ resolved = IF build = "part_005" THEN <<[caller |-> 1, at |-> 0]>> ELSE <<>>
    /\ pc = "json"
    /\ attempt = 1
    /\ lastErrText = NoErrText
    /\ lastHeaders = headersOf(NoHeaders, 1)
    /\ timer = NoTimer
    /\ ret = [kind |-> "ok", status |-> 200, errText |-> NoErrText,
              rate |-> headersOf(NoHeaders, 1)]
    /\ res = <<>>
    /\ lastResp = [kind |-> "http", status |-> 200, retryAfter |-> 0, attempt |-> 1]
    /\ backoff = NoBackoff
    /\ gap = 0
    /\ requests = 1
    /\ waits = 0
    /\ acquires = 1
    /\ allRetryable = FALSE
    /\ only429 = TRUE
    /\ waitedRetryAfter = TRUE
    /\ upstream = NoContent
    /\ abandoned = FALSE
    /\ ui = NoUI
    /\ outbox = NoOutbox

NextExtract == handlerExtractAny

SpecExtract == InitExtract /\ [][NextExtract]_vars

\* Either limiter, under its concurrent callers.
NextLimiters ==
    \/ build = "evaluate" /\ NextSleep
    \/ build = "part_005" /\ NextQueue

InitLimiters == now = 0 /\ build \in Builds /\ InitS /\ InitQ /\ InitH

SpecLimiters == InitLimiters /\ [][NextLimiters]_vars

\* The steps of the limiters that the specification under fairness keeps:
\* those of its callers, with a clock that ticks up to MaxTimeLive and from
\* there on moves to the due time of a pending timer.
LiveStep ==
    /\ entered' <= LiveCallersS
    /\ arrived' <= LiveCallersQ
    /\ now' # now => \/ now' <= MaxTimeLive
                     \/ now' = qTimer
                     \/ \E c \in 1..MaxCallersS : now' = sleepers[c]

NextLimitersLive ==
    \/ build = "evaluate" /\ NextSleep /\ LiveStep
    \/ build = "part_005" /\ NextQueue /\ LiveStep

\* Timers fire and the clock advances: setTimeout callbacks run once due, and
\* Date.now() reaches every pending timer's due time.
FairLimiters ==
    /\ WF_vars(build = "evaluate" /\ throttleGlobalWake)
    /\ WF_vars(build = "evaluate" /\ TickS /\ LiveStep)
    /\ WF_vars(build = "part_005" /\ processQueueWake)
    /\ WF_vars(build = "part_005" /\ TickQ /\ LiveStep)

SpecLimitersFair == InitLimiters /\ [][NextLimitersLive]_vars /\ FairLimiters

(***************************************************************************)
(* C1: in the queue-based limiter the callers released in any interval     *)
(* shorter than 1/refillPerSec seconds never number more than capacity;    *)
(* every release has consumed one whole token (the tokens handed out never *)
(* exceed the initial burst plus the refill up to _rl.last) and the bucket *)
(* never goes below 0.                                                     *)
(***************************************************************************)
C1_QueueRateBound ==
    /\ \A i, j \in 1..Len(resolved) :
          (i <= j /\ (resolved[j].at - resolved[i].at) * refillPerSecQ < OneToken)
              => j - i + 1 <= capacityQ
    /\ rlQ.tokens >= 0
    /\ Len(resolved) * OneToken + rlQ.tokens
          <= capacityQ * OneToken + rlQ.last * refillPerSecQ

\* More callers than the burst have been released: the one past the burst
\* had to wait for the refill of a whole token.
C1_Witness ==
    /\ Len(resolved) > capacityQ
    /\ resolved[capacityQ + 1].at - resolved[1].at = OneToken \div refillPerSecQ

(***************************************************************************)
(* C2: in the sleep-based limiter the callers admitted by time t never     *)
(* number more than capacity + refillPerSec * t: every caller that returns *)
(* has consumed a whole token.                                             *)
(***************************************************************************)
C2_SleepNeverOverIssues ==
    Len(admitted) * OneToken <= capacity * OneToken + refillPerSec * now

(***************************************************************************)
(* C3: every upstream request of an invocation, retries included, is       *)
(* preceded by its own acquire: an invocation has never issued more        *)
(* requests than it has consumed tokens, and ends with as many of each.    *)
(***************************************************************************)
C3_AcquirePerAttempt ==
    /\ requests <= acquires
    /\ pc = "done" => acquires = requests

(***************************************************************************)
(* C4: after a failed attempt another attempt follows if and only if the   *)
(* status is 429, 500, 502, 503 or 504 and the attempt count is below      *)
(* maxAttempts; any other non-2xx status ends the call there with a        *)
(* terminal failure and no backoff wait (one attempt when it is the first  *)
(* response).                                                              *)
(***************************************************************************)
C4_RetryIffRetryable ==
    LET failed == lastResp.kind = "http" /\ ~RespOk(lastResp.status)
        listed == lastResp.status \in {429, 500, 502, 503, 504}
    IN /\ (failed /\ pc \in {"backoff", "returned"})
            => ((pc = "backoff") <=> (listed /\ lastResp.attempt < maxAttempts(build)))
       /\ (failed /\ pc = "fetch")
            => (listed /\ requests = lastResp.attempt + 1)
       /\ (failed /\ ~listed)
            => /\ pc \in {"returned", "done"}
               /\ requests = lastResp.attempt
               /\ waits = lastResp.attempt - 1
               /\ backoff = NoBackoff
               /\ ret.kind = "fail"
               /\ ret.status = lastResp.status

\* A 404 on the second attempt, after one retry, has ended the call.
C4_Witness ==
    /\ pc = "returned"
    /\ lastResp.status = 404
    /\ requests = 2
    /\ waits = 1

(***************************************************************************)
(* C5: one call issues at most maxAttempts requests (4 in evaluate.js, 5   *)
(* in part_005); when every attempt yields a retryable status it issues    *)
(* exactly maxAttempts requests and maxAttempts - 1 backoff waits.         *)
(***************************************************************************)
C5_AttemptCeiling ==
    LET ceiling == IF build = "evaluate" THEN 4 ELSE 5 IN
    /\ requests <= ceiling
    /\ waits <= ceiling - 1
    /\ (pc \in {"returned", "done"} /\ requests > 0 /\ allRetryable)
         => (requests = ceiling /\ waits = ceiling - 1 /\ ret.kind = "fail")

\* Five retryable statuses in a row in part_005: the call is over.
C5_Witness ==
    /\ build = "part_005"
    /\ pc = "done"
    /\ allRetryable
    /\ requests = 5
    /\ waits = 4

(***************************************************************************)
(* C6: in evaluate.js, after a 429 with a retry-after of R seconds (any    *)
(* R > 0), the next attempt is not issued before R seconds have elapsed.   *)
(***************************************************************************)
C6_RetryAfterHonoured ==
    (/\ build = "evaluate"
     /\ pc = "fetch"
     /\ backoff.kind = "http"
     /\ backoff.status = 429
     /\ backoff.retryAfter > 0)
        => gap >= backoff.retryAfter * 1000

(***************************************************************************)
(* C7, as claimed: in part_005, whenever a retryable failure response (429 *)
(* or 500/502/503/504) carries a retry-after of R seconds, the wait before *)
(* the next attempt is at least R seconds.                                 *)
(***************************************************************************)
C7_RetryAfterAnyRetryable ==
    (/\ build = "part_005"
     /\ pc = "fetch"
     /\ backoff.kind = "http"
     /\ backoff.retryAfter > 0)
        => gap >= backoff.retryAfter * 1000

(***************************************************************************)
(* C7, amended: in part_005, whenever a 429 response carries a retry-after *)
(* of R > 0 seconds, the wait before the next attempt is at least R        *)
(* seconds.                                                                *)
(***************************************************************************)
C7_RetryAfter429 ==
    (/\ build = "part_005"
     /\ pc = "fetch"
     /\ backoff.kind = "http"
     /\ backoff.status = 429
     /\ backoff.retryAfter > 0)
        => gap >= backoff.retryAfter * 1000

\* The attempt after a 429 with retry-after 5 has been issued.
C7_Witness ==
    /\ build = "part_005"
    /\ pc = "fetch"
    /\ backoff.status = 429
    /\ backoff.retryAfter = 5
    /\ gap >= 5000

(***************************************************************************)
(* C8: in part_005 a fetch that rejects on attempt k < maxAttempts is      *)
(* followed by a backoff wait and then by attempt k + 1; on the last       *)
(* attempt it yields a terminal failure value.                             *)
(***************************************************************************)
C8_AfterReject ==
    (build = "part_005" /\ lastResp.kind = "reject" /\ lastResp.attempt = attempt)
        => IF attempt < 5
           THEN /\ pc = "backoff"
                /\ backoff.kind = "reject"
                /\ backoff.after = attempt
                /\ backoff.delay > 0
           ELSE /\ pc \in {"returned", "done"}
                /\ ret.kind = "fail"
                /\ ret.errText = [from |-> 5, text |-> "Network error"]

C8_NextAttempt ==
    (build = "part_005" /\ pc = "backoff" /\ backoff.kind = "reject")
        => /\ pc' = "fetch"
           /\ attempt' = attempt + 1
           /\ requests' = requests + 1
           /\ gap' >= backoff.delay

C8_TransportFailureRetried == []C8_AfterReject /\ [][C8_NextAttempt]_vars

\* Five rejected fetches in a row: four waits, then the failure value.
C8_Witness ==
    /\ build = "part_005"
    /\ pc = "returned"
    /\ ret.errText = [from |-> 5, text |-> "Network error"]
    /\ lastHeaders = NoHeaders
    /\ waits = 4

(***************************************************************************)
(* C9: callOpenAIWithRetries of evaluate.js never raises past its boundary:*)
(* for every upstream outcome, a rejected fetch included, it returns a     *)
(* value instead of throwing to the handler.                               *)
(***************************************************************************)
C9_NeverThrows ==
    build = "evaluate" => ret.kind # "threw"

(***************************************************************************)
(* C10: a terminal failure returned after a failing upstream response      *)
(* carries the errText and the rate snapshot of the final attempt.         *)
(***************************************************************************)
C10_LastErrorReturned ==
    (ret.kind = "fail" /\ lastResp.kind = "http")
        => /\ ret.errText.from = requests
           /\ ret.rate.from = requests
           /\ ret.status = lastResp.status
           /\ lastResp.attempt = requests

\* Four failing responses in evaluate.js: the failure of the fourth is returned.
C10_Witness ==
    /\ build = "evaluate"
    /\ ret.kind = "fail"
    /\ lastResp.kind = "http"
    /\ requests = 4
    /\ ret.errText = [from |-> 4, text |-> "(no body)"]

(***************************************************************************)
(* C11: every caller of throttleGlobal is eventually admitted, in the      *)
(* sleep-based limiter and in the queue-based one, when timers fire and    *)
(* the clock advances: no caller is blocked forever, no wakeup is lost.    *)
(***************************************************************************)
C11_EveryCallerAdmitted ==
    /\ \A c \in 1..LiveCallersS :
          (build = "evaluate" /\ entered >= c)
              ~> (\E i \in 1..Len(admitted) : admitted[i].caller = c)
    /\ \A c \in 1..LiveCallersQ :
          (build = "part_005" /\ arrived >= c)
              ~> (\E i \in 1..Len(resolved) : resolved[i].caller = c)

\* Every caller of the queue-based limiter has been released, the last ones
\* after a wait on the timer; the loop has ended and reset its flag.
C11_Witness ==
    /\ build = "part_005"
    /\ arrived = LiveCallersQ
    /\ Len(resolved) = LiveCallersQ
    /\ resolved[LiveCallersQ].at > resolved[1].at
    /\ rlQ.queue = <<>>
    /\ ~rlQ.processing

(***************************************************************************)
(* C12: in every reachable state of either limiter, after any interleaving *)
(* of concurrent throttleGlobal calls, 0 <= _rl.tokens <= _rl.capacity.    *)
(***************************************************************************)
C12_TokensInRange ==
    /\ rl.tokens >= 0
    /\ rl.tokens <= capacity * OneToken
    /\ rlQ.tokens >= 0
    /\ rlQ.tokens <= capacityQ * OneToken

\* Two sleepers of the sleep-based limiter have woken on one refilled token:
\* the second found the bucket empty and the clamp kept it at 0.
C12_Witness ==
    /\ build = "evaluate"
    /\ Len(admitted) = 4
    /\ admitted[3].at > 0
    /\ admitted[4].at = admitted[3].at
    /\ rl.tokens = 0

(***************************************************************************)
(* C13: in evaluate.js, when the upstream answers 429 on attempts 1, 2 and *)
(* 3 and 200 on attempt 4, callOpenAIWithRetries returns success after     *)
(* exactly 4 requests and exactly 3 backoff waits, each wait lasting at    *)
(* least the retry-after seconds of the response before it, when it        *)
(* carried any.                                                            *)
(***************************************************************************)
C13_ScenarioB ==
    (/\ build = "evaluate"
     /\ only429
     /\ lastResp.kind = "http"
     /\ lastResp.status = 200
     /\ lastResp.attempt = 4)
        => /\ ret.kind = "ok"
           /\ requests = 4
           /\ waits = 3
           /\ waitedRetryAfter

(***************************************************************************)
(* C14: in evaluate.js, when a retryable response carries no retry-after,  *)
(* the wait after attempt a (a = 1..3) is min(4000, 400 * 2^(a-1)) ms plus *)
(* a jitter of 0..199 ms: it lies in [400, 599], [800, 999] and            *)
(* [1600, 1799] ms after attempts 1, 2 and 3.                              *)
(***************************************************************************)
C14_BackoffRange ==
    (/\ build = "evaluate"
     /\ pc = "backoff"
     /\ backoff.kind = "http"
     /\ backoff.retryAfter = 0)
        => LET lo == CASE backoff.after = 1 -> 400
                       [] backoff.after = 2 -> 800
                       [] backoff.after = 3 -> 1600
                       [] OTHER -> -1
           IN /\ lo # -1
              /\ backoff.delay >= lo
              /\ backoff.delay <= lo + 199
              /\ backoff.delay - Min(4000, lo) \in 0..199

\* The wait after the third attempt, with the largest jitter.
C14_Witness ==
    /\ build = "evaluate"
    /\ pc = "backoff"
    /\ backoff.kind = "http"
    /\ backoff.retryAfter = 0
    /\ backoff.after = 3
    /\ backoff.delay = 1799

(***************************************************************************)
(* C15: in part_005, for consecutive 429 responses without retry-after,    *)
(* the backoff delay strictly grows with the attempt number whatever the   *)
(* jitter: the wait after attempt a + 1 is longer than the wait after      *)
(* attempt a (attempts 1..4).                                              *)
(***************************************************************************)
C15_Consecutive429 ==
    /\ build = "part_005"
    /\ backoff.kind = "http" /\ backoff.status = 429 /\ backoff.retryAfter = 0
    /\ backoff'.kind = "http" /\ backoff'.status = 429 /\ backoff'.retryAfter = 0
    /\ backoff'.after = backoff.after + 1

C15_DelayGrows ==
    [][C15_Consecutive429 => backoff'.delay > backoff.delay]_vars

\* The wait after the fourth 429 in a row, none with a retry-after, with the
\* largest jitter of that wait.
C15_Witness ==
    /\ build = "part_005"
    /\ pc = "backoff"
    /\ only429
    /\ backoff.status = 429
    /\ backoff.retryAfter = 0
    /\ backoff.after = 4
    /\ backoff.delay = 8799

(***************************************************************************)
(* C16: for a referral whose documents are a list that is empty or starts  *)
(* with a document with text, sanitizeReferral returns a referral whose    *)
(* documents list has at most one element, the first input document, with  *)
(* as text the first min(3000, length) characters of the original text;    *)
(* the other fields of the referral and of the document equal the input's. *)
(***************************************************************************)
C16_TrimmedToFirstDocument ==
    LET in == req.referral
        typed == /\ in.kind = "object"
                 /\ in.documents.kind = "array"
                 /\ \A i \in DOMAIN in.documents.items :
                       i = 1 => /\ in.documents.items[i].kind = "object"
                                /\ in.documents.items[i].text.kind = "string"
        out == safeReferral.value
    IN (safeReferral.state # "none" /\ typed)
          => /\ safeReferral.state = "value"
             /\ out.kind = "object"
             /\ out.structured = in.structured
             /\ out.documents.kind = "array"
             /\ Len(out.documents.items) <= 1
             /\ Len(out.documents.items) = Min(1, Len(in.documents.items))
             /\ \A i \in DOMAIN out.documents.items :
                   LET d == in.documents.items[1] IN
                   /\ out.documents.items[i].kind = "object"
                   /\ out.documents.items[i].filename = d.filename
                   /\ out.documents.items[i].text.kind = "string"
                   /\ out.documents.items[i].text.len = Min(3000, d.text.len)
                   /\ out.documents.items[i].text.src = d.text.src

\* Scenario E: MaxDocs documents, 10,000 characters in the first: one
\* document with 3,000 characters is returned.
C16_Witness ==
    /\ req.referral.kind = "object"
    /\ req.referral.documents.kind = "array"
    /\ Len(req.referral.documents.items) = MaxDocs
    /\ \A i \in 1..MaxDocs : req.referral.documents.items[i].kind = "object"
    /\ req.referral.documents.items[1].text = Str(1, 10000)
    /\ safeReferral.state = "value"
    /\ Len(safeReferral.value.documents.items) = 1
    /\ safeReferral.value.documents.items[1].text = Str(1, 3000)

(***************************************************************************)
(* C17: the gateway never mutates caller state: after sanitizeReferral(r), *)
(* and until the end of the handler invocation, the caller's referral      *)
(* object, its documents array and each document's text included, is as    *)
(* the caller passed it.                                                   *)
(***************************************************************************)
C17_CallerReferralUnchanged ==
    (pc # "idle" \/ safeReferral.state # "none")
        => callerReferral = req.referral

\* An invocation on scenario E's referral has answered 200: the referral
\* sent upstream had one document, the caller's still has them all.
C17_Witness ==
    /\ pc = "done"
    /\ Len(res) = 1
    /\ res[1].status = 200
    /\ req.referral = LargeReferral
    /\ Len(safeReferral.value.documents.items) = 1
    /\ Len(callerReferral.documents.items) = MaxDocs

(***************************************************************************)
(* C18: sanitizeReferral has no failure mode: for every referral that can  *)
(* arrive in a JSON request body (documents missing, not an array, empty,  *)
(* holding documents without text, or null or non-object elements) it      *)
(* returns a result without throwing.                                      *)
(***************************************************************************)
C18_SanitizeNeverThrows ==
    safeReferral.state # "threw"

(***************************************************************************)
(* C19: within one handler invocation the steps are strictly ordered:      *)
(* sanitizeReferral has completed before throttleGlobal is called,         *)
(* throttleGlobal has resolved before the first upstream request is        *)
(* issued, extraction and parsing happen only after a 2xx upstream         *)
(* response, and every upstream request carries the sanitized referral.    *)
(***************************************************************************)
C19_StepsInOrder ==
    /\ (pc = "throttle" \/ acquires > 0 \/ arrived > 0)
          => /\ safeReferral.state = "value"
             /\ payload # NoPayload
    /\ pc = "throttle" => (acquires = 0 /\ requests = 0)
    /\ requests > 0
          => /\ acquires >= 1
             /\ payload.referral = safeReferral.value
             /\ payload.referral = sanitizeReferral(req.referral).value
             /\ payload.referral.documents.kind = "array"
                   => /\ Len(payload.referral.documents.items) <= 1
                      /\ \A i \in DOMAIN payload.referral.documents.items :
                            payload.referral.documents.items[i].text.len <= 3000
    /\ (pc = "json" \/ \E i \in 1..Len(res) : res[i].result # "none")
          => /\ ret.kind = "ok"
             /\ lastResp.kind = "http"
             /\ RespOk(lastResp.status)
             /\ requests > 0

\* An invocation on scenario E's referral that had to wait for a token, was
\* retried once and got its 2xx is at the extraction.
C19_Witness ==
    /\ pc = "json"
    /\ req.referral = LargeReferral
    /\ now > 0
    /\ acquires = 1
    /\ requests = 2
    /\ Len(payload.referral.documents.items) = 1

(***************************************************************************)
(* C20: a payload extracted from the upstream text that violates the       *)
(* task's shape is rejected with a SchemaViolation error: the handler      *)
(* never answers ok: true with such a result.                              *)
(***************************************************************************)
C20_SchemaViolationRejected ==
    \A i \in 1..Len(res) :
        ~(res[i].status = 200 /\ res[i].result = "misshapen")

(***************************************************************************)
(* C21: the completeness score of a returned result is always within       *)
(* 0..100: a score the model produced outside it is clamped (150 becomes   *)
(* 100, -5 becomes 0).                                                     *)
(***************************************************************************)
C21_ScoreInRange ==
    \A i \in 1..Len(res) :
        (res[i].status = 200 /\ req.task \in ScoredTasks /\ upstream.conforms)
            => res[i].score \in 0..100

(***************************************************************************)
(* C22: the extraction takes the text from its first opening brace to its  *)
(* last closing brace.  When either brace is absent, or that span is no    *)
(* JSON value (the last closing brace standing before the first opening    *)
(* one included), handler answers 502 with a malformed-response error and  *)
(* never ok: true; when the span is a JSON value, that value is the        *)
(* result.                                                                 *)
(***************************************************************************)
MalformedErrors == {"Model did not return JSON", "Failed to parse JSON from model"}

C22_MalformedIs502 ==
    (pc = "done" /\ upstream.json = "ok") =>
        LET t == upstream.text
            first == indexOf(t, "{")
            last == lastIndexOf(t, "}")
            span == JSONparse(SubSeq(t, first, last))
        IN IF first = 0 \/ last = 0 \/ ~span.ok
           THEN /\ res[1].status = 502
                /\ res[1].error \in MalformedErrors
                /\ res[1].result = "none"
           ELSE /\ res[1].status = 200
                /\ res[1].tree = span.tree

\* The text was "}{": handler has answered 502.
C22_Witness ==
    /\ pc = "done"
    /\ upstream.text = <<"}", "{">>
    /\ res[1].status = 502
    /\ res[1].error = "Failed to parse JSON from model"

(***************************************************************************)
(* C23: for every valid payload P and every commentary without braces      *)
(* before and after it, the extraction from commentary + serialize(P) +    *)
(* commentary yields exactly P; a bare payload comes back unchanged.       *)
(***************************************************************************)
C23_ExtractionRoundTrip ==
    (pc = "done" /\ upstream.origin.known) =>
        LET P == upstream.origin.payload IN
        /\ \E a \in Prose, b \in Prose : upstream.text = a \o JSONstringify(P) \o b
        /\ res[1].status = 200
        /\ res[1].tree = P

\* A payload with an object among its members came between commentary and
\* is the result.
C23_Witness ==
    /\ pc = "done"
    /\ upstream.text = <<"x", "{", "m", "{", "m", "}", "}", "x", "x">>
    /\ upstream.origin = [known |-> TRUE, payload |-> res[1].tree]
    /\ res[1].status = 200
    /\ res[1].tree = Object(<<Member, Object(<<Member>>)>>)

(***************************************************************************)
(* C24: a malformed upstream response is not retried.  Once a 2xx response *)
(* has come, handler makes no further upstream request and takes no        *)
(* further token, and when the response holds no payload that can be       *)
(* extracted, the malformed-response error is what it answers.             *)
(***************************************************************************)
C24_MalformedNotRetried ==
    [][pc = "json" =>
         /\ requests' = requests
         /\ acquires' = acquires
         /\ waits' = waits
         /\ rl' = rl
         /\ rlQ' = rlQ
         /\ pc' = "done"
         /\ (upstream'.json = "ok" /\ extractJSON(upstream'.text).kind # "parsed")
               => /\ Len(res') = 1
                  /\ res'[1].status = 502
                  /\ res'[1].error \in MalformedErrors]_vars

\* A retried request got its 2xx, whose text had no brace: handler has
\* answered 502 and made no third request.
C24_Witness ==
    /\ pc = "done"
    /\ requests = 2
    /\ upstream.text = <<"x">>
    /\ res[1].status = 502

(***************************************************************************)
(* C25: without OPENAI_API_KEY the handler answers the missing-key error   *)
(* at once: no token is taken, no upstream request is made, nothing is     *)
(* retried.                                                                *)
(***************************************************************************)
C25_MissingKeyFailsFast ==
    (pc # "idle" /\ ~req.key) =>
        /\ pc = "done"
        /\ requests = 0
        /\ acquires = 0
        /\ waits = 0
        /\ arrived = 0
        /\ now = 0
        /\ timer = NoTimer
        /\ qTimer = NoTimer
        /\ rl \in {[tokens |-> t, last |-> 0] : t \in {0, capacity * OneToken}}
        /\ rlQ.tokens \in {0, capacityQ * OneToken}
        /\ rlQ.queue = <<>>
        /\ Len(res) = 1
        /\ (/\ req.method = "POST"
            /\ req.task # ""
            /\ req.referral # NullReferral
            /\ (build = "part_005" => req.referral.structured))
              => /\ res[1].status = 500
                 /\ res[1].error = "Server missing OPENAI_API_KEY"

\* A request with a task and a referral came to a gateway without key and
\* has its answer.
C25_Witness ==
    /\ pc = "done"
    /\ ~req.key
    /\ req.task = "auth"
    /\ req.referral = LargeReferral
    /\ res[1].error = "Server missing OPENAI_API_KEY"
    /\ rl.tokens = capacity * OneToken

(***************************************************************************)
(* C26: every invocation of handler sends exactly one HTTP response on     *)
(* every path (a rejected fetch, a resp.json() that throws and any other   *)
(* exception answer 500), never two: none before it is over, one once it   *)
(* is, and it is never stuck before that.                                  *)
(***************************************************************************)
C26_ExactlyOneResponse ==
    /\ Len(res) = (IF pc = "done" THEN 1 ELSE 0)
    /\ pc # "done" => ENABLED NextHandler
    /\ (pc = "done" /\ ret.kind = "threw") => res[1].status = 500
    /\ (pc = "done" /\ upstream.json = "throws") => res[1].status = 500
    /\ (pc = "done" /\ safeReferral.state = "threw") => res[1].status = 500

\* resp.json() threw after an upstream 200, and the one response is the
\* catch's.
C26_Witness ==
    /\ pc = "done"
    /\ upstream.json = "throws"
    /\ res = <<ServerError>>

(***************************************************************************)
(* C27: the raw upstream text is in a response, the success response or a  *)
(* malformed-response error, only if the debug flag is set: the query has  *)
(* debug=1 or the x-debug header is 1 or true.                             *)
(***************************************************************************)
C27_RawOnlyInDebug ==
    \A i \in 1..Len(res) :
        res[i].raw.present =>
            /\ req.query = "1" \/ req.xdebug \in {"1", "true"}
            /\ res[i].raw.text = upstream.text

\* A malformed-response error carries the raw text for a request whose
\* x-debug header was true, and a success response for one with debug=1.
C27_Witness ==
    /\ pc = "done"
    /\ \/ /\ req.query = ""
          /\ req.xdebug = "true"
          /\ res[1].status = 502
          /\ res[1].raw = [present |-> TRUE, text |-> <<"{", "x", "}">>]
       \/ /\ req.query = "1"
          /\ req.xdebug = ""
          /\ res[1].status = 200
          /\ res[1].raw = [present |-> TRUE, text |-> <<"x", "{", "m", "}", "x">>]

(***************************************************************************)
(* C28: in part_005, the response to a terminal 429 says which limit was   *)
(* hit: remainingRequests "0" gives the request-limit hint;                *)
(* remainingTokens "0", remainingRequests not being "0", the token-limit   *)
(* hint; anything else the generic hint.                                   *)
(***************************************************************************)
C28_RateLimitHint ==
    (build = "part_005" /\ pc = "done" /\ ret.kind = "fail" /\ ret.status = 429) =>
        /\ res[1].status = 429
        /\ res[1].error = "Rate limit exceeded"
        /\ res[1].detail =
              (CASE ret.rate.remainingRequests = "0" -> RequestLimitHint
                 [] ret.rate.remainingRequests # "0" /\ ret.rate.remainingTokens = "0" ->
                        TokenLimitHint
                 [] OTHER -> GenericHint)

\* The fifth 429 in a row said both limits were used up: the hint is the
\* request limit's.
C28_Witness ==
    /\ build = "part_005"
    /\ pc = "done"
    /\ requests = 5
    /\ ret.status = 429
    /\ ret.rate.remainingRequests = "0"
    /\ ret.rate.remainingTokens = "0"
    /\ res[1].detail = RequestLimitHint

(***************************************************************************)
(* C29: the gateway supports cooperative cancellation: once the caller has *)
(* abandoned an evaluation in flight, its outbound call and its pending    *)
(* backoff are aborted, so that no further upstream attempt is issued for  *)
(* it, and it takes no token from the shared bucket after that.            *)
(***************************************************************************)
C29_AbandonedIsAborted ==
    [][abandoned =>
         /\ requests' = requests
         /\ acquires' = acquires
         /\ rl'.tokens >= rl.tokens
         /\ rlQ'.tokens >= rlQ.tokens]_vars

(***************************************************************************)
(* C30: when the gateway answers an evaluation that has not been abandoned *)
(* with an error (a status outside 2xx or a rejected fetch),               *)
(* ReferralDetail falls back to the local heuristics: comp is              *)
(* assessCompleteness(referral), auth is predictAuth(referral) and the AI  *)
(* summary is empty, for the referral it shows.                            *)
(***************************************************************************)
C30_ErrorFallsBack ==
    (ui.last.kind = "error" /\ ~ui.last.abandoned) =>
        /\ ui.comp = assessCompleteness(ui.referral)
        /\ ui.auth = predictAuth(ui.referral)
        /\ ui.aiSummary = ""

(***************************************************************************)
(* What a step of ReferralDetail sends to /api/evaluate: the effect's      *)
(* run() calls evalBundleLLM (evalCompletenessLLM, then evalAuthLLM), and  *)
(* analyzePdf calls evalBundleLLM(updated).                                *)
(***************************************************************************)
effectIssues ==
    \/ Len(ui'.runs) > Len(ui.runs)
    \/ /\ Len(ui'.runs) = Len(ui.runs)
       /\ \E i \in DOMAIN ui.runs :
            ui.runs[i].at = "completeness" /\ ui'.runs[i].at = "auth"

analyzePdfIssues == ui.pdf.at = "extract" /\ ui'.pdf.at = "bundle"

(***************************************************************************)
(* C31: evaluations go to the gateway only while useLLM is on: with useLLM *)
(* false neither the effect nor analyzePdf sends a request to              *)
(* /api/evaluate, and comp and auth are results of the local heuristics.   *)
(***************************************************************************)
C31_GatewayOnlyWhileOn ==
    [][/\ (effectIssues \/ analyzePdfIssues) => ui'.useLLM
       /\ (ui'.mounted /\ ~ui'.useLLM) =>
            /\ ui'.comp.by = "assessCompleteness"
            /\ ui'.auth.by = "predictAuth"]_vars

(***************************************************************************)
(* C32: handler answers 200 with a body { ok: true, task, result, model,   *)
(* diagnostics } exactly when the upstream call succeeded and a payload    *)
(* was extracted from its text; on every failure it answers with a status  *)
(* outside 2xx and a body { ok: false, error, detail, diagnostics }.       *)
(***************************************************************************)
C32_ResponseShape ==
    pc = "done" =>
        LET r == res[1]
            success == /\ ret.kind = "ok"
                       /\ upstream.json = "ok"
                       /\ extractJSON(upstream.text).kind = "parsed"
        IN /\ r.status = 200 <=> success
           /\ success =>
                /\ r.ok = "true"
                /\ r.result # "none"
                /\ r.diagnostics
           /\ ~success =>
                /\ r.status \notin 200..299
                /\ r.ok = "false"
                /\ r.error # ""
                /\ r.detail # "undefined"
                /\ r.diagnostics

(***************************************************************************)
(* C33: in part_005's limiter at most one processQueue loop is active at   *)
(* any time and no wakeup is lost.  Whenever control is back in the event  *)
(* loop with _rl.queue not empty, _rl.processing is true and the loop's    *)
(* timer is pending; _rl.processing is false only with an empty queue; and *)
(* a throttleGlobal call made while a loop is active only pushes its       *)
(* resolve: it runs no second loop (no refill, no release, no timer).      *)
(***************************************************************************)
C33_OneLoopNoLostWakeup ==
    [][/\ rlQ'.queue # <<>> => rlQ'.processing
       /\ rlQ'.processing <=> qTimer' # NoTimer
       /\ (rlQ.processing /\ arrived' = arrived + 1) =>
            /\ rlQ' = [rlQ EXCEPT !.queue = Append(@, arrived + 1)]
            /\ qTimer' = qTimer
            /\ resolved' = resolved]_vars

\* Two callers wait in the queue behind one sleeping loop: the second
\* called throttleGlobal while the loop was active.
C33_Witness ==
    /\ Len(rlQ.queue) >= 2
    /\ rlQ.processing
    /\ qTimer # NoTimer
    /\ now < qTimer

(***************************************************************************)
(* C34: part_005's limiter admits its callers in the order of their calls: *)
(* when A called throttleGlobal before B, A's promise is resolved before   *)
(* B's.  Callers are numbered by their calls, so the i-th resolve() is     *)
(* caller i's, and the queue holds the callers not yet resolved in order.  *)
(***************************************************************************)
C34_FIFO ==
    /\ \A i \in DOMAIN resolved : resolved[i].caller = i
    /\ \A i \in DOMAIN rlQ.queue : rlQ.queue[i] = Len(resolved) + i
    /\ Len(resolved) + Len(rlQ.queue) = arrived

\* Two callers found the bucket empty, waited in the queue together and
\* were released one after the other.
C34_Witness ==
    /\ Len(resolved) >= capacityQ + 2
    /\ resolved[capacityQ + 1].caller = capacityQ + 1
    /\ resolved[capacityQ + 2].caller = capacityQ + 2
    /\ resolved[capacityQ + 1].at > 0
    /\ resolved[capacityQ + 1].at < resolved[capacityQ + 2].at

(***************************************************************************)
(* The responses of handler's checks of the request, and the requests      *)
(* those checks are there for.                                             *)
(***************************************************************************)
ValidationErrors ==
    {"Method not allowed", "Missing task or referral",
     "Invalid referral structure - missing required fields", "Unsupported task"}

invalidInput(b, r) ==
    \/ r.method # "POST"
    \/ r.task = ""
    \/ r.referral.kind = "null"
    \/ b = "part_005" /\ ~r.referral.structured
    \/ r.task \notin SupportedTasks

(***************************************************************************)
(* C35: a request turned away by the validation of the input (a method     *)
(* other than POST, no task or referral, in part_005 a referral without    *)
(* id, patient or specialty, a task that is not supported) is answered 405 *)
(* or 400 and leaves the limiter as it was: no token is taken, nothing is  *)
(* put in the queue, no timer is set and no upstream request is made.      *)
(***************************************************************************)
C35_RejectedLeavesLimiter ==
    [][(pc = "idle" /\ pc' # "idle" /\ invalidInput(build, req')) =>
         /\ pc' = "done"
         /\ Len(res') = 1
         /\ res'[1].error \in ValidationErrors => res'[1].status \in {405, 400}
         /\ res'[1].error \in ValidationErrors \cup
                {"Server missing OPENAI_API_KEY", "Server error"}
         /\ (req'.key /\ sanitizeReferral(req'.referral).state # "threw")
                => res'[1].error \in ValidationErrors
         /\ UNCHANGED <<rl, sleepers, entered, admitted, timer>>
         /\ UNCHANGED <<rlQ, qTimer, arrived, resolved>>
         /\ UNCHANGED <<requests, acquires, waits, attempt>>]_vars

\* A POST with a referral and a key, for a task that is not supported, has
\* been answered 400 with part_005's bucket and queue as they were.
C35_Witness ==
    /\ pc = "done"
    /\ build = "part_005"
    /\ req.method = "POST"
    /\ req.key
    /\ req.task = "triage"
    /\ req.referral = LargeReferral
    /\ res = <<Reply(400, "Unsupported task", NoRaw)>>
    /\ rlQ.queue = <<>>
    /\ arrived = 0
    /\ requests = 0

(***************************************************************************)
(* C36: ReferralDetail never applies to comp, auth or aiSummary the result *)
(* of an evaluation started for a referral or a useLLM that is no longer   *)
(* current, be it the effect's or analyzePdf's: whenever one of the three  *)
(* changes, comp and auth are results for the referral now shown, and they *)
(* are the gateway's only while useLLM is on.                              *)
(***************************************************************************)
C36_NoStaleResult ==
    [][<<ui'.comp, ui'.auth, ui'.aiSummary>> # <<ui.comp, ui.auth, ui.aiSummary>> =>
         /\ ui'.comp.of.id = ui'.referral.id
         /\ ui'.auth.of.id = ui'.referral.id
         /\ (ui'.comp.by = "llm" \/ ui'.auth.by = "llm") => ui'.useLLM]_vars

(***************************************************************************)
(* C37: in ReferralDetail.tsx comp and auth come from the same source and  *)
(* the same referral: both from the gateway (both calls succeeded) or both *)
(* from the local heuristics, and once the evaluation for the referral     *)
(* shown has settled they are results for that referral.  A completeness   *)
(* call that succeeds followed by an auth call that fails never leaves the *)
(* gateway's comp next to a local auth.                                    *)
(***************************************************************************)
C37_SameSource ==
    (ui.component = "ReferralDetail.tsx" /\ ui.mounted) =>
        /\ \/ ui.comp.by = "llm" /\ ui.auth.by = "llm"
           \/ ui.comp.by = "assessCompleteness" /\ ui.auth.by = "predictAuth"
        /\ ui.comp.of = ui.auth.of
        /\ (\A i \in DOMAIN ui.runs : ui.runs[i].cancelled) =>
             /\ ui.comp.of = ui.referral
             /\ ui.comp.by = "llm" => ui.useLLM

\* The evaluation of the referral shown has settled: completeness had
\* succeeded, the auth call failed, and both are the local results.
C37_Witness ==
    /\ ui.component = "ReferralDetail.tsx"
    /\ ui.useLLM
    /\ ui.runs = <<>>
    /\ ui.last = [kind |-> "error", by |-> "effect", abandoned |-> FALSE,
                  at |-> "auth"]
    /\ ui.comp = assessCompleteness(ui.referral)
    /\ ui.auth = predictAuth(ui.referral)

\* The buttons whose handlers queue their action under low connectivity.
QueueingButtons ==
    {"Hold", "Fix & Notify Referrer", "Notify Patient",
     "Notify Patient About Distance", "Notify Patient About Insurance"}

(***************************************************************************)
(* C38: with lowConnectivity on, holdSlot, notifyReferrer and              *)
(* notifyPatient each append exactly one item to the outbox queue and do   *)
(* nothing at once (held is unchanged, nothing is shown); the items stay   *)
(* in the queue, in the order they were queued, until flushQueue, which    *)
(* empties the queue in one step.                                          *)
(***************************************************************************)
C38_QueuedInOrder ==
    [][outbox' # outbox =>
         LET b == outbox'.last.button IN
         /\ (b \in QueueingButtons /\ outbox.lowConnectivity) =>
              /\ Len(outbox'.queue) = Len(outbox.queue) + 1
              /\ SubSeq(outbox'.queue, 1, Len(outbox.queue)) = outbox.queue
              /\ outbox'.queue[Len(outbox'.queue)].action = outbox'.last.delivered
              /\ outbox'.last.queued
              /\ outbox'.held = outbox.held
              /\ outbox'.lowConnectivity
         /\ (b \in QueueingButtons /\ ~outbox.lowConnectivity) =>
              outbox'.queue = outbox.queue
         /\ b = "Low Connectivity" => outbox'.queue = outbox.queue
         /\ b = "Process queued" => outbox.queue # <<>> /\ outbox'.queue = <<>>
         /\ b \in QueueingButtons \cup {"Low Connectivity", "Process queued"}]_vars

\* Under low connectivity a fax to the referrer and then a hold of slot 2
\* were queued: both are in the queue in that order and nothing is held.
C38_Witness ==
    /\ outbox.lowConnectivity
    /\ Len(outbox.queue) = 2
    /\ outbox.queue[1].action.prefix = "Fax to referrer: "
    /\ outbox.queue[2].action = Text("Hold slot for ", Msg("hold", "slot", 2))
    /\ outbox.last.button = "Hold"
    /\ outbox.held = NoSlot

(***************************************************************************)
(* C39: after a click on Notify Patient About Distance (or About           *)
(* Insurance) the message delivered, queued in the outbox under low        *)
(* connectivity and shown otherwise, is the message about the distance     *)
(* (the insurance) that the child component passed to onNotifyPatient.     *)
(***************************************************************************)
C39_ChildMessageDelivered ==
    outbox.last.button \in {"Notify Patient About Distance",
                            "Notify Patient About Insurance"} =>
        /\ outbox.last.passed # NoMessage
        /\ outbox.last.delivered.body = outbox.last.passed
        /\ outbox.last.queued =>
             outbox.queue[Len(outbox.queue)].action.body = outbox.last.passed

====
